---- MODULE Spec2Model ----
(***************************************************************************)
(* A model of src/bva.py: the cost allocation functions, the baseline      *)
(* savings, the benefit realization curve, the per-scenario cash-flow      *)
(* projection, the monthly cumulative cash flow, the export and import of  *)
(* the configuration as CSV and JSON text, the two checks of the inputs    *)
(* and of the results, and the what-if calculation.                        *)
(*                                                                         *)
(* Numbers.  Python evaluates the engine over int and float.  The engine   *)
(* parts compute over exact rationals <<n, d>> (d > 0, lowest terms), so   *)
(* every "/" of the source is an exact quotient there.  A division whose   *)
(* divisor is zero yields the value DivError, as Python raises             *)
(* ZeroDivisionError there.  The two payback figures depend on the sign of *)
(* sums that can be zero, where rounding decides; the last part evaluates  *)
(* them in IEEE 754 binary64 with the rounding of every operation.         *)
(*                                                                         *)
(* Text.  A text is a sequence of pieces, each a single character or a     *)
(* word without any character the formats treat specially.                 *)
(***************************************************************************)
EXTENDS Integers, Sequences, FiniteSets, TLC

VARIABLES
    pc,         \* which part of the script is running / has run
    f_delay,    \* realization curve: implementation_delay_months argument
    f_ramp,     \* realization curve: ramp_up_months argument
    f_month,    \* realization curve: last month argument passed
    f_hist,     \* realization curve: f_hist[m] is what the call for month m returned
    c_args,     \* cost allocation: the eight arguments passed
    alert_ret,  \* cost allocation: what calculate_alert_costs returned
    incident_ret, \* cost allocation: what calculate_incident_costs returned
    inputs,     \* baseline: the sidebar inputs, by the name the script binds them to
    costs,      \* baseline: cost_per_alert, cost_per_incident, ... (lines 846-854)
    savings,    \* baseline: the five savings line items (lines 857-871)
    total_annual_benefits,  \* baseline: line 874
    implementation_delay_months,  \* slider, line 508
    benefits_ramp_up_months,      \* slider, line 514
    platform_cost,                \* number input, line 756
    services_cost,                \* number input, line 761
    evaluation_years,             \* slider, line 769
    discount_rate,                \* slider / 100, line 774
    scenario_results,             \* scenario name -> result record, line 974
    expected_monthly_cf_df,       \* rows of the monthly cumulative cash flow, line 1770
    session_state,  \* export/import: st.session_state, widget key -> value
    export_data,    \* export/import: the file generated for download, lines 442-462
    import_result,  \* export/import: what the last import returned, lines 481-487
    float_run,      \* payback in binary64: the locals of lines 892-937 and 1011-1051
    checks,         \* what validate_inputs and check_calculation_health returned
    whatif          \* what-if analysis: the four sliders and the figures of lines 1971-1998

factorVars == <<f_delay, f_ramp, f_month, f_hist>>
costVars == <<c_args, alert_ret, incident_ret>>
baselineVars == <<inputs, costs, savings, total_annual_benefits>>
timelineVars == <<implementation_delay_months, benefits_ramp_up_months, platform_cost,
                  services_cost, evaluation_years, discount_rate>>
scenarioVars == <<timelineVars, scenario_results, expected_monthly_cf_df>>
ioVars == <<session_state, export_data, import_result>>
floatVars == <<float_run>>
sideVars == <<checks, whatif>>
vars == <<pc, f_delay, f_ramp, f_month, f_hist, c_args, alert_ret, incident_ret,
          inputs, costs, savings, total_annual_benefits, implementation_delay_months,
          benefits_ramp_up_months, platform_cost, services_cost, evaluation_years,
          discount_rate, scenario_results, expected_monthly_cf_df, session_state,
          export_data, import_result, float_run, checks, whatif>>

----------------------------------------------------------------------------
(* Exact rational arithmetic *)

Abs(x) == IF x < 0 THEN -x ELSE x

RECURSIVE GCD(_, _)
GCD(a, b) == IF b = 0 THEN a ELSE GCD(b, a % b)

\* n/d in lowest terms with a positive denominator (d # 0)
Norm(n, d) ==
    LET g == GCD(Abs(n), Abs(d))
        s == IF d < 0 THEN -1 ELSE 1
    IN  <<(s * n) \div g, (s * d) \div g>>

R(n) == <<n, 1>>
Zero == <<0, 1>>
One == <<1, 1>>
DivError == "ZeroDivisionError"

IsRat(x) == x # DivError

RAdd(a, b) ==
    IF a[1] = 0 THEN Norm(b[1], b[2])
    ELSE IF b[1] = 0 THEN Norm(a[1], a[2])
    ELSE LET g == GCD(a[2], b[2])
         IN  Norm(a[1] * (b[2] \div g) + b[1] * (a[2] \div g), (a[2] \div g) * b[2])

RNeg(a) == <<-a[1], a[2]>>

RSub(a, b) == RAdd(a, RNeg(b))

RMul(a, b) ==
    IF a[1] = 0 \/ b[1] = 0 THEN Zero
    ELSE LET g1 == GCD(Abs(a[1]), b[2])
             g2 == GCD(Abs(b[1]), a[2])
         IN  Norm((a[1] \div g1) * (b[1] \div g2), (a[2] \div g2) * (b[2] \div g1))

\* Python's a / b: raises ZeroDivisionError when b == 0
RDiv(a, b) ==
    IF b[1] = 0 THEN DivError
    ELSE RMul(a, IF b[1] > 0 THEN <<b[2], b[1]>> ELSE <<-b[2], -b[1]>>)

RLe(a, b) ==
    LET g == GCD(a[2], b[2])
    IN  a[1] * (b[2] \div g) <= b[1] * (a[2] \div g)

RLt(a, b) == RLe(a, b) /\ a # b

----------------------------------------------------------------------------
(* Bounds of the model *)

MaxDelayArg == 24
MaxRampArg == 12
MaxMonthArg == 40
MaxFtes == 2
MaxEntered == 1
MaxDelay == 6
MaxRamp == 3
MaxYears == 3

----------------------------------------------------------------------------
(* The cost allocation functions *)

\* What a cost function returns: the 4-tuple, and the divisions it executed
NotCalled == [ret |-> <<>>, divisions |-> {}]
NoArgs == [volume |-> 0, ftes |-> 0, triage |-> 0, salary |-> 0,
           hours_per_day |-> Zero, days_per_week |-> 0, weeks_per_year |-> 0,
           holiday_sick_days |-> 0]

\* Before either check has run
NotChecked == [validated |-> FALSE, warnings |-> <<>>, errors |-> <<>>,
               health_checked |-> FALSE, calc_issues |-> <<>>]

\* The values a part's variables hold while another part is the one running
ScenarioIdle ==
    /\ implementation_delay_months = 0 /\ benefits_ramp_up_months = 0
    /\ platform_cost = 0 /\ services_cost = 0
    /\ evaluation_years = 1 /\ discount_rate = Zero
    /\ scenario_results = <<>> /\ expected_monthly_cf_df = <<>>
BaselineIdle ==
    inputs = <<>> /\ costs = <<>> /\ savings = <<>> /\ total_annual_benefits = Zero
FactorIdle == f_delay = 0 /\ f_ramp = 0 /\ f_month = 0 /\ f_hist = <<>>
CostIdle == c_args = NoArgs /\ alert_ret = NotCalled /\ incident_ret = NotCalled
IoIdle == session_state = <<>> /\ export_data = <<>> /\ import_result = <<>>
FloatIdle == float_run = <<>>
SideIdle == checks = NotChecked /\ whatif = <<>>

\* Mutants of calculate_alert_costs (used to test the claims)
alert_costs_guard_volume_only(alert_volume, alert_ftes, avg_alert_triage_time, avg_salary_per_year, hours_per_day, days_per_week, weeks_per_year, holiday_sick_days) ==
    IF alert_volume = 0
    THEN [ret |-> <<Zero, Zero, Zero, Zero>>, divisions |-> {}]
    ELSE
    LET total_alert_time_minutes_per_year == R(alert_volume * avg_alert_triage_time)
        total_alert_time_hours_per_year == RDiv(total_alert_time_minutes_per_year, R(60))
        total_working_days == (weeks_per_year * days_per_week) - holiday_sick_days
        working_hours_per_fte_per_year == RMul(R(total_working_days), hours_per_day)
        total_available_fte_hours == RMul(R(alert_ftes), working_hours_per_fte_per_year)
        fte_time_percentage_on_alerts ==
            IF RLt(Zero, total_available_fte_hours)
            THEN RDiv(total_alert_time_hours_per_year, total_available_fte_hours)
            ELSE Zero
        total_fte_cost == R(alert_ftes * avg_salary_per_year)
        total_alert_handling_cost == RMul(total_fte_cost, fte_time_percentage_on_alerts)
        cost_per_alert ==
            IF alert_volume > 0
            THEN RDiv(total_alert_handling_cost, R(alert_volume))
            ELSE Zero
    IN  [ret |-> <<cost_per_alert, total_alert_handling_cost,
                   fte_time_percentage_on_alerts, working_hours_per_fte_per_year>>,
         divisions |-> {"minutes_to_hours"}
                       \cup (IF RLt(Zero, total_available_fte_hours)
                             THEN {"time_fraction"} ELSE {})
                       \cup (IF alert_volume > 0 THEN {"cost_per_unit"} ELSE {})]

alert_costs_fraction_clamped(alert_volume, alert_ftes, avg_alert_triage_time, avg_salary_per_year, hours_per_day, days_per_week, weeks_per_year, holiday_sick_days) ==
    IF alert_volume = 0 \/ alert_ftes = 0
    THEN [ret |-> <<Zero, Zero, Zero, Zero>>, divisions |-> {}]
    ELSE
    LET total_alert_time_minutes_per_year == R(alert_volume * avg_alert_triage_time)
        total_alert_time_hours_per_year == RDiv(total_alert_time_minutes_per_year, R(60))
        total_working_days == (weeks_per_year * days_per_week) - holiday_sick_days
        working_hours_per_fte_per_year == RMul(R(total_working_days), hours_per_day)
        total_available_fte_hours == RMul(R(alert_ftes), working_hours_per_fte_per_year)
        unclamped ==
            IF RLt(Zero, total_available_fte_hours)
            THEN RDiv(total_alert_time_hours_per_year, total_available_fte_hours)
            ELSE Zero
        fte_time_percentage_on_alerts == IF RLt(One, unclamped) THEN One ELSE unclamped
        total_fte_cost == R(alert_ftes * avg_salary_per_year)
        total_alert_handling_cost == RMul(total_fte_cost, fte_time_percentage_on_alerts)
        cost_per_alert ==
            IF alert_volume > 0
            THEN RDiv(total_alert_handling_cost, R(alert_volume))
            ELSE Zero
    IN  [ret |-> <<cost_per_alert, total_alert_handling_cost,
                   fte_time_percentage_on_alerts, working_hours_per_fte_per_year>>,
         divisions |-> {"minutes_to_hours"}
                       \cup (IF RLt(Zero, total_available_fte_hours)
                             THEN {"time_fraction"} ELSE {})
                       \cup (IF alert_volume > 0 THEN {"cost_per_unit"} ELSE {})]

alert_costs_salary_not_scaled_by_ftes(alert_volume, alert_ftes, avg_alert_triage_time, avg_salary_per_year, hours_per_day, days_per_week, weeks_per_year, holiday_sick_days) ==
    IF alert_volume = 0 \/ alert_ftes = 0
    THEN [ret |-> <<Zero, Zero, Zero, Zero>>, divisions |-> {}]
    ELSE
    LET total_alert_time_minutes_per_year == R(alert_volume * avg_alert_triage_time)
        total_alert_time_hours_per_year == RDiv(total_alert_time_minutes_per_year, R(60))
        total_working_days == (weeks_per_year * days_per_week) - holiday_sick_days
        working_hours_per_fte_per_year == RMul(R(total_working_days), hours_per_day)
        total_available_fte_hours == RMul(R(alert_ftes), working_hours_per_fte_per_year)
        fte_time_percentage_on_alerts ==
            IF RLt(Zero, total_available_fte_hours)
            THEN RDiv(total_alert_time_hours_per_year, total_available_fte_hours)
            ELSE Zero
        total_fte_cost == R(avg_salary_per_year)
        total_alert_handling_cost == RMul(total_fte_cost, fte_time_percentage_on_alerts)
        cost_per_alert ==
            IF alert_volume > 0
            THEN RDiv(total_alert_handling_cost, R(alert_volume))
            ELSE Zero
    IN  [ret |-> <<cost_per_alert, total_alert_handling_cost,
                   fte_time_percentage_on_alerts, working_hours_per_fte_per_year>>,
         divisions |-> {"minutes_to_hours"}
                       \cup (IF RLt(Zero, total_available_fte_hours)
                             THEN {"time_fraction"} ELSE {})
                       \cup (IF alert_volume > 0 THEN {"cost_per_unit"} ELSE {})]

calculate_alert_costs(alert_volume, alert_ftes, avg_alert_triage_time, avg_salary_per_year, hours_per_day, days_per_week, weeks_per_year, holiday_sick_days) ==
    IF alert_volume = 0 \/ alert_ftes = 0
    THEN [ret |-> <<Zero, Zero, Zero, Zero>>, divisions |-> {}]
    ELSE
    LET total_alert_time_minutes_per_year == R(alert_volume * avg_alert_triage_time)
        total_alert_time_hours_per_year == RDiv(total_alert_time_minutes_per_year, R(60))
        total_working_days == (weeks_per_year * days_per_week) - holiday_sick_days
        working_hours_per_fte_per_year == RMul(R(total_working_days), hours_per_day)
        total_available_fte_hours == RMul(R(alert_ftes), working_hours_per_fte_per_year)
        fte_time_percentage_on_alerts ==
            IF RLt(Zero, total_available_fte_hours)
            THEN RDiv(total_alert_time_hours_per_year, total_available_fte_hours)
            ELSE Zero
        total_fte_cost == R(alert_ftes * avg_salary_per_year)
        total_alert_handling_cost == RMul(total_fte_cost, fte_time_percentage_on_alerts)
        cost_per_alert ==
            IF alert_volume > 0
            THEN RDiv(total_alert_handling_cost, R(alert_volume))
            ELSE Zero
    IN  [ret |-> <<cost_per_alert, total_alert_handling_cost,
                   fte_time_percentage_on_alerts, working_hours_per_fte_per_year>>,
         divisions |-> {"minutes_to_hours"}
                       \cup (IF RLt(Zero, total_available_fte_hours)
                             THEN {"time_fraction"} ELSE {})
                       \cup (IF alert_volume > 0 THEN {"cost_per_unit"} ELSE {})]

calculate_incident_costs(incident_volume, incident_ftes, avg_incident_triage_time, avg_salary_per_year, hours_per_day, days_per_week, weeks_per_year, holiday_sick_days) ==
    IF incident_volume = 0 \/ incident_ftes = 0
    THEN [ret |-> <<Zero, Zero, Zero, Zero>>, divisions |-> {}]
    ELSE
    LET total_incident_time_minutes_per_year == R(incident_volume * avg_incident_triage_time)
        total_incident_time_hours_per_year ==
            RDiv(total_incident_time_minutes_per_year, R(60))
        total_working_days == (weeks_per_year * days_per_week) - holiday_sick_days
        working_hours_per_fte_per_year == RMul(R(total_working_days), hours_per_day)
        total_available_fte_hours == RMul(R(incident_ftes), working_hours_per_fte_per_year)
        fte_time_percentage_on_incidents ==
            IF RLt(Zero, total_available_fte_hours)
            THEN RDiv(total_incident_time_hours_per_year, total_available_fte_hours)
            ELSE Zero
        total_fte_cost == R(incident_ftes * avg_salary_per_year)
        total_incident_handling_cost ==
            RMul(total_fte_cost, fte_time_percentage_on_incidents)
        cost_per_incident ==
            IF incident_volume > 0
            THEN RDiv(total_incident_handling_cost, R(incident_volume))
            ELSE Zero
    IN  [ret |-> <<cost_per_incident, total_incident_handling_cost,
                   fte_time_percentage_on_incidents, working_hours_per_fte_per_year>>,
         divisions |-> {"minutes_to_hours"}
                       \cup (IF RLt(Zero, total_available_fte_hours)
                             THEN {"time_fraction"} ELSE {})
                       \cup (IF incident_volume > 0 THEN {"cost_per_unit"} ELSE {})]

\* --- both functions applied to drawn arguments ---

\* Yearly volumes: none, under capacity, exactly at capacity of one FTE on the
\* standard calendar, far over capacity
Volumes == {0, 600, 4512, 1200000}
Ftes == (0..MaxFtes) \cup {10}
TriageMinutes == {0, 25}
Salaries == {0, 50000}
\* <<hours_per_day, days_per_week, weeks_per_year, holiday_sick_days>>, each within
\* the range its input widget allows: the default calendar, a 7.5 hour day, a
\* calendar with no working day left and one with fewer than none
Calendars == {<<R(8), 5, 52, 25>>, <<Norm(15, 2), 5, 52, 25>>,
              <<R(8), 5, 10, 50>>, <<R(8), 1, 1, 100>>}

CostInit ==
    /\ pc = "cost_start"
    /\ \E v \in Volumes, f \in Ftes, t \in TriageMinutes, s \in Salaries, c \in Calendars :
           c_args = [volume |-> v, ftes |-> f, triage |-> t, salary |-> s,
                     hours_per_day |-> c[1], days_per_week |-> c[2],
                     weeks_per_year |-> c[3], holiday_sick_days |-> c[4]]
    /\ alert_ret = NotCalled
    /\ incident_ret = NotCalled
    /\ FactorIdle
    /\ BaselineIdle
    /\ ScenarioIdle
    /\ IoIdle
    /\ FloatIdle
    /\ SideIdle

CallAlertCosts ==
    /\ pc = "cost_start"
    /\ alert_ret' = calculate_alert_costs(c_args.volume, c_args.ftes, c_args.triage,
                        c_args.salary, c_args.hours_per_day, c_args.days_per_week,
                        c_args.weeks_per_year, c_args.holiday_sick_days)
    /\ pc' = "cost_alert_done"
    /\ UNCHANGED <<c_args, incident_ret>>
    /\ UNCHANGED <<factorVars, baselineVars, scenarioVars>>
    /\ UNCHANGED ioVars
    /\ UNCHANGED floatVars
    /\ UNCHANGED sideVars

CallIncidentCosts ==
    /\ pc = "cost_alert_done"
    /\ incident_ret' = calculate_incident_costs(c_args.volume, c_args.ftes, c_args.triage,
                           c_args.salary, c_args.hours_per_day, c_args.days_per_week,
                           c_args.weeks_per_year, c_args.holiday_sick_days)
    /\ pc' = "cost_done"
    /\ UNCHANGED <<c_args, alert_ret>>
    /\ UNCHANGED <<factorVars, baselineVars, scenarioVars>>
    /\ UNCHANGED ioVars
    /\ UNCHANGED floatVars
    /\ UNCHANGED sideVars

CostNext == CallAlertCosts \/ CallIncidentCosts

SpecCost == CostInit /\ [][CostNext]_vars

----------------------------------------------------------------------------
(* Claims about the cost allocation *)

AlertCalled == pc \in {"cost_alert_done", "cost_done"}
IncidentCalled == pc = "cost_done"

\* What the calls made so far returned
CostReturns ==
    (IF AlertCalled THEN {alert_ret} ELSE {}) \cup
    (IF IncidentCalled THEN {incident_ret} ELSE {})

\* The annual working hours per FTE and the hours of triage, from the arguments
ArgWorkingHours ==
    RMul(R(c_args.weeks_per_year * c_args.days_per_week - c_args.holiday_sick_days),
         c_args.hours_per_day)
ArgAvailableHours == RMul(R(c_args.ftes), ArgWorkingHours)
ArgTriageHours == Norm(c_args.volume * c_args.triage, 60)

StandardCalendar ==
    /\ c_args.hours_per_day = R(8) /\ c_args.days_per_week = 5
    /\ c_args.weeks_per_year = 52 /\ c_args.holiday_sick_days = 25

Fixture ==
    /\ c_args.volume = 1200000 /\ c_args.ftes = 10
    /\ c_args.triage = 25 /\ c_args.salary = 50000
    /\ StandardCalendar

\* C1: with volume = 0 or ftes = 0 both cost functions return 0 for the cost per
\* unit, the total handling cost and the FTE time fraction, whatever the other
\* arguments are, and execute no division at all.
C1_ZeroVolumeOrFtesReturnsZeros ==
    (c_args.volume = 0 \/ c_args.ftes = 0) =>
        \A r \in CostReturns :
            /\ r.ret[1] = Zero /\ r.ret[2] = Zero /\ r.ret[3] = Zero
            /\ r.divisions = {}

C1_Witness ==
    /\ pc = "cost_done"
    /\ c_args.volume = 1200000 /\ c_args.ftes = 0
    /\ c_args.triage = 25 /\ c_args.salary = 50000
    /\ c_args.weeks_per_year = 10 /\ c_args.holiday_sick_days = 50
    /\ alert_ret.ret = <<Zero, Zero, Zero, Zero>>
    /\ incident_ret.ret = <<Zero, Zero, Zero, Zero>>

\* C2 as claimed: for volume > 0 and ftes > 0 the time fraction is
\* (volume * minutes / 60) / (ftes * annual hours) when ftes * annual hours > 0 and 0
\* otherwise, and it is > 1 exactly when the triage hours exceed the available hours.
C2_Original_FractionOverOneIffOverCapacity ==
    (c_args.volume > 0 /\ c_args.ftes > 0) =>
        \A r \in CostReturns :
            /\ RLt(Zero, ArgAvailableHours) =>
                   RMul(r.ret[3], ArgAvailableHours) = ArgTriageHours
            /\ RLe(ArgAvailableHours, Zero) => r.ret[3] = Zero
            /\ RLt(One, r.ret[3]) <=> RLt(ArgAvailableHours, ArgTriageHours)

\* C2 (amended): for volume > 0 and ftes > 0 the time fraction is
\* (volume * minutes / 60) / (ftes * annual hours) when ftes * annual hours > 0 and 0
\* otherwise; it is not clamped: when ftes * annual hours > 0 it is > 1 exactly when
\* the triage hours exceed the available hours.
C2_FractionUnclamped ==
    (c_args.volume > 0 /\ c_args.ftes > 0) =>
        \A r \in CostReturns :
            /\ RLt(Zero, ArgAvailableHours) =>
                   RMul(r.ret[3], ArgAvailableHours) = ArgTriageHours
            /\ RLe(ArgAvailableHours, Zero) => r.ret[3] = Zero
            /\ RLt(Zero, ArgAvailableHours) =>
                   (RLt(One, r.ret[3]) <=> RLt(ArgAvailableHours, ArgTriageHours))

C2_Witness ==
    /\ pc = "cost_done"
    /\ Fixture
    /\ RLt(One, alert_ret.ret[3])
    /\ alert_ret.ret[3] = incident_ret.ret[3]
    /\ RLt(ArgAvailableHours, ArgTriageHours)

\* The part of C3 that holds for every volume > 0 and ftes > 0:
\* total_handling_cost = ftes * avg_salary * fte_time_fraction and
\* cost_per_unit = total_handling_cost / volume.
CostFormulas ==
    (c_args.volume > 0 /\ c_args.ftes > 0) =>
        \A r \in CostReturns :
            /\ r.ret[2] = RMul(R(c_args.ftes * c_args.salary), r.ret[3])
            /\ r.ret[1] = RDiv(r.ret[2], R(c_args.volume))
            /\ RMul(r.ret[1], R(c_args.volume)) = r.ret[2]

----------------------------------------------------------------------------
(* The baseline savings and the total annual benefits *)

\* pct / 100
Pct(p) == RDiv(R(p), R(100))

\* Mutant of AlertSavings: triage savings taken on the original volume
alert_savings_triage_on_original_volume(alert_volume, alert_reduction_pct, cost_per_alert, alert_triage_time_saved_pct) ==
    LET avoided_alerts == RMul(R(alert_volume), Pct(alert_reduction_pct))
        alert_reduction_savings == RMul(avoided_alerts, cost_per_alert)
        alert_handling_cost == RMul(R(alert_volume), cost_per_alert)
        alert_triage_savings == RMul(alert_handling_cost, Pct(alert_triage_time_saved_pct))
    IN  [reduction |-> alert_reduction_savings, triage |-> alert_triage_savings]

\* lines 857-861
AlertSavings(alert_volume, alert_reduction_pct, cost_per_alert, alert_triage_time_saved_pct) ==
    LET avoided_alerts == RMul(R(alert_volume), Pct(alert_reduction_pct))
        remaining_alerts == RSub(R(alert_volume), avoided_alerts)
        alert_reduction_savings == RMul(avoided_alerts, cost_per_alert)
        remaining_alert_handling_cost == RMul(remaining_alerts, cost_per_alert)
        alert_triage_savings ==
            RMul(remaining_alert_handling_cost, Pct(alert_triage_time_saved_pct))
    IN  [reduction |-> alert_reduction_savings, triage |-> alert_triage_savings]

\* lines 863-867
IncidentSavings(incident_volume, incident_reduction_pct, cost_per_incident, incident_triage_time_savings_pct) ==
    LET avoided_incidents == RMul(R(incident_volume), Pct(incident_reduction_pct))
        remaining_incidents == RSub(R(incident_volume), avoided_incidents)
        incident_reduction_savings == RMul(avoided_incidents, cost_per_incident)
        remaining_incident_handling_cost == RMul(remaining_incidents, cost_per_incident)
        incident_triage_savings ==
            RMul(remaining_incident_handling_cost, Pct(incident_triage_time_savings_pct))
    IN  [reduction |-> incident_reduction_savings, triage |-> incident_triage_savings]

\* lines 869-871
MajorIncidentSavings(major_incident_volume, mttr_improvement_pct, avg_mttr_hours, avg_major_incident_cost) ==
    LET mttr_hours_saved_per_incident == RMul(Pct(mttr_improvement_pct), avg_mttr_hours)
        total_mttr_hours_saved == RMul(R(major_incident_volume), mttr_hours_saved_per_incident)
    IN  RMul(total_mttr_hours_saved, R(avg_major_incident_cost))

\* Mutants of TotalAnnualBenefits: an item left out, an item counted twice
total_benefits_without_opex(s, i) ==
    RAdd(RAdd(RAdd(RAdd(RAdd(RAdd(RAdd(RAdd(RAdd(RAdd(
        s.alert_reduction_savings, s.alert_triage_savings), s.incident_reduction_savings),
        s.incident_triage_savings), s.major_incident_savings), R(i.tool_savings)),
        R(i.people_cost_per_year)), R(i.fte_avoidance)), R(i.sla_penalty_avoidance)),
        R(i.revenue_growth)), R(i.capex_savings))

total_benefits_tool_savings_twice(s, i) ==
    RAdd(RAdd(RAdd(RAdd(RAdd(RAdd(RAdd(RAdd(RAdd(RAdd(RAdd(RAdd(
        s.alert_reduction_savings, s.alert_triage_savings), s.incident_reduction_savings),
        s.incident_triage_savings), s.major_incident_savings), R(i.tool_savings)),
        R(i.tool_savings)), R(i.people_cost_per_year)), R(i.fte_avoidance)),
        R(i.sla_penalty_avoidance)), R(i.revenue_growth)), R(i.capex_savings)),
        R(i.opex_savings))

\* lines 874-878, from the savings s and the inputs i
TotalAnnualBenefits(s, i) ==
    RAdd(RAdd(RAdd(RAdd(RAdd(RAdd(RAdd(RAdd(RAdd(RAdd(RAdd(
        s.alert_reduction_savings, s.alert_triage_savings), s.incident_reduction_savings),
        s.incident_triage_savings), s.major_incident_savings), R(i.tool_savings)),
        R(i.people_cost_per_year)), R(i.fte_avoidance)), R(i.sla_penalty_avoidance)),
        R(i.revenue_growth)), R(i.capex_savings)), R(i.opex_savings))

\* --- the script from the cost calls to the total, for drawn inputs ---

\* The seven additional benefits, and the amount each has when it is entered
AdditionalKeys == {"tool_savings", "people_cost_per_year", "fte_avoidance",
                   "sla_penalty_avoidance", "revenue_growth", "capex_savings",
                   "opex_savings"}
AdditionalAmount ==
    [tool_savings |-> 1000, people_cost_per_year |-> 2000, fte_avoidance |-> 4000,
     sla_penalty_avoidance |-> 8000, revenue_growth |-> 16000, capex_savings |-> 32000,
     opex_savings |-> 64000]
\* Which of them are entered: at most MaxEntered of them, or all but at most MaxEntered
EnteredSets ==
    {e \in SUBSET AdditionalKeys :
        Cardinality(e) <= MaxEntered \/ Cardinality(e) >= 7 - MaxEntered}
Amount(e, k) == IF k \in e THEN AdditionalAmount[k] ELSE 0

\* <<volume, ftes, triage minutes, salary>> of a workload
AlertWorkloads == {<<0, 0, 0, 50000>>, <<600, 1, 25, 50000>>, <<600, 0, 25, 50000>>}
IncidentWorkloads == {<<0, 0, 0, 50000>>, <<120, 2, 90, 60000>>}
\* <<reduction %, triage time saved %>>
AlertPcts == {0, 40, 100} \X {0, 40, 100}
IncidentPcts == {<<0, 0>>, <<25, 40>>, <<100, 60>>}
\* <<volume, cost per hour, MTTR hours, improvement %>>
MajorIncidents == {<<0, 0, Zero, 0>>, <<12, 1000, Norm(5, 2), 50>>}

BaselineInit ==
    /\ pc = "inputs_read"
    /\ \E a \in AlertWorkloads, ap \in AlertPcts, n \in IncidentWorkloads,
          np \in IncidentPcts, m \in MajorIncidents, e \in EnteredSets :
           inputs = [alert_volume |-> a[1], alert_ftes |-> a[2],
                     avg_alert_triage_time |-> a[3], avg_alert_fte_salary |-> a[4],
                     alert_reduction_pct |-> ap[1], alert_triage_time_saved_pct |-> ap[2],
                     incident_volume |-> n[1], incident_ftes |-> n[2],
                     avg_incident_triage_time |-> n[3], avg_incident_fte_salary |-> n[4],
                     incident_reduction_pct |-> np[1],
                     incident_triage_time_savings_pct |-> np[2],
                     major_incident_volume |-> m[1], avg_major_incident_cost |-> m[2],
                     avg_mttr_hours |-> m[3], mttr_improvement_pct |-> m[4],
                     tool_savings |-> Amount(e, "tool_savings"),
                     people_cost_per_year |-> Amount(e, "people_cost_per_year"),
                     fte_avoidance |-> Amount(e, "fte_avoidance"),
                     sla_penalty_avoidance |-> Amount(e, "sla_penalty_avoidance"),
                     revenue_growth |-> Amount(e, "revenue_growth"),
                     capex_savings |-> Amount(e, "capex_savings"),
                     opex_savings |-> Amount(e, "opex_savings"),
                     hours_per_day |-> R(8), days_per_week |-> 5,
                     weeks_per_year |-> 52, holiday_sick_days |-> 25]
    /\ costs = <<>>
    /\ savings = <<>>
    /\ total_annual_benefits = Zero
    /\ CostIdle
    /\ FactorIdle
    /\ ScenarioIdle
    /\ IoIdle
    /\ FloatIdle
    /\ SideIdle

\* lines 846-854
CalculateCosts ==
    /\ pc = "inputs_read"
    /\ LET a == calculate_alert_costs(inputs.alert_volume, inputs.alert_ftes,
                    inputs.avg_alert_triage_time, inputs.avg_alert_fte_salary,
                    inputs.hours_per_day, inputs.days_per_week, inputs.weeks_per_year,
                    inputs.holiday_sick_days).ret
           n == calculate_incident_costs(inputs.incident_volume, inputs.incident_ftes,
                    inputs.avg_incident_triage_time, inputs.avg_incident_fte_salary,
                    inputs.hours_per_day, inputs.days_per_week, inputs.weeks_per_year,
                    inputs.holiday_sick_days).ret
       IN  costs' = [cost_per_alert |-> a[1], total_alert_handling_cost |-> a[2],
                     alert_fte_percentage |-> a[3], alert_working_hours |-> a[4],
                     cost_per_incident |-> n[1], total_incident_handling_cost |-> n[2],
                     incident_fte_percentage |-> n[3], incident_working_hours |-> n[4]]
    /\ pc' = "costs_done"
    /\ UNCHANGED <<inputs, savings, total_annual_benefits>>
    /\ UNCHANGED <<factorVars, costVars, scenarioVars>>
    /\ UNCHANGED ioVars
    /\ UNCHANGED floatVars
    /\ UNCHANGED sideVars

\* lines 857-871
CalculateBaselineSavings ==
    /\ pc = "costs_done"
    /\ LET a == AlertSavings(inputs.alert_volume, inputs.alert_reduction_pct,
                             costs.cost_per_alert, inputs.alert_triage_time_saved_pct)
           n == IncidentSavings(inputs.incident_volume, inputs.incident_reduction_pct,
                                costs.cost_per_incident,
                                inputs.incident_triage_time_savings_pct)
       IN  savings' = [alert_reduction_savings |-> a.reduction,
                       alert_triage_savings |-> a.triage,
                       incident_reduction_savings |-> n.reduction,
                       incident_triage_savings |-> n.triage,
                       major_incident_savings |->
                           MajorIncidentSavings(inputs.major_incident_volume,
                               inputs.mttr_improvement_pct, inputs.avg_mttr_hours,
                               inputs.avg_major_incident_cost)]
    /\ pc' = "savings_done"
    /\ UNCHANGED <<inputs, costs, total_annual_benefits>>
    /\ UNCHANGED <<factorVars, costVars, scenarioVars>>
    /\ UNCHANGED ioVars
    /\ UNCHANGED floatVars
    /\ UNCHANGED sideVars

\* lines 874-878
CalculateTotalAnnualBenefits ==
    /\ pc = "savings_done"
    /\ total_annual_benefits' = TotalAnnualBenefits(savings, inputs)
    /\ pc' = "total_done"
    /\ UNCHANGED <<inputs, costs, savings>>
    /\ UNCHANGED <<factorVars, costVars, scenarioVars>>
    /\ UNCHANGED ioVars
    /\ UNCHANGED floatVars
    /\ UNCHANGED sideVars

BaselineNext ==
    CalculateCosts \/ CalculateBaselineSavings \/ CalculateTotalAnnualBenefits

SpecBaseline == BaselineInit /\ [][BaselineNext]_vars

----------------------------------------------------------------------------
(* Claims about the baseline savings *)

SavingsDone == pc \in {"savings_done", "total_done"}

\* C4: reduction_savings = volume * reduction_pct/100 * cost_per_unit and
\* triage_savings = (volume - avoided_units) * cost_per_unit * triage_time_saved_pct/100,
\* for alerts and for incidents: the triage savings are taken on the cost that remains
\* after the reduction, so with reduction_pct = 100 they are 0 for every
\* triage_time_saved_pct.
C4_TriageSavingsOnRemainingCost ==
    SavingsDone =>
        LET av == R(inputs.alert_volume)
            aavoided == RMul(av, Norm(inputs.alert_reduction_pct, 100))
            nv == R(inputs.incident_volume)
            navoided == RMul(nv, Norm(inputs.incident_reduction_pct, 100))
        IN
        /\ savings.alert_reduction_savings = RMul(aavoided, costs.cost_per_alert)
        /\ savings.alert_triage_savings =
               RMul(RMul(RSub(av, aavoided), costs.cost_per_alert),
                    Norm(inputs.alert_triage_time_saved_pct, 100))
        /\ savings.incident_reduction_savings = RMul(navoided, costs.cost_per_incident)
        /\ savings.incident_triage_savings =
               RMul(RMul(RSub(nv, navoided), costs.cost_per_incident),
                    Norm(inputs.incident_triage_time_savings_pct, 100))
        /\ inputs.alert_reduction_pct = 100 => savings.alert_triage_savings = Zero
        /\ inputs.incident_reduction_pct = 100 => savings.incident_triage_savings = Zero

C4_Witness ==
    /\ pc = "savings_done"
    /\ inputs.alert_reduction_pct = 100
    /\ inputs.alert_triage_time_saved_pct = 40
    /\ RLt(Zero, costs.cost_per_alert)
    /\ RLt(Zero, savings.alert_reduction_savings)
    /\ savings.alert_triage_savings = Zero
    /\ inputs.incident_reduction_pct = 25
    /\ RLt(Zero, savings.incident_triage_savings)

\* C5: total_annual_benefits is the unweighted sum of exactly twelve items: the four
\* reduction/triage savings, the major-incident savings (= major_incident_volume *
\* mttr_improvement_pct/100 * avg_mttr_hours * avg_major_incident_cost) and the seven
\* additional benefits, each counted once whatever the other inputs are.
C5_TotalIsSumOfTwelveItems ==
    /\ SavingsDone =>
           savings.major_incident_savings =
               RMul(RMul(RMul(R(inputs.major_incident_volume),
                              Norm(inputs.mttr_improvement_pct, 100)),
                         inputs.avg_mttr_hours),
                    R(inputs.avg_major_incident_cost))
    /\ pc = "total_done" =>
           RSub(total_annual_benefits,
                R(inputs.tool_savings + inputs.people_cost_per_year + inputs.fte_avoidance
                  + inputs.sla_penalty_avoidance + inputs.revenue_growth
                  + inputs.capex_savings + inputs.opex_savings))
             = RAdd(savings.alert_reduction_savings,
                    RAdd(savings.alert_triage_savings,
                         RAdd(savings.incident_reduction_savings,
                              RAdd(savings.incident_triage_savings,
                                   savings.major_incident_savings))))

C5_Witness ==
    /\ pc = "total_done"
    /\ \A k \in DOMAIN savings : RLt(Zero, savings[k])
    /\ inputs.tool_savings = 1000 /\ inputs.people_cost_per_year = 2000
    /\ inputs.fte_avoidance = 4000 /\ inputs.sla_penalty_avoidance = 8000
    /\ inputs.revenue_growth = 16000 /\ inputs.capex_savings = 32000
    /\ inputs.opex_savings = 64000
    /\ savings.major_incident_savings = R(15000)
    /\ RLt(R(142000), total_annual_benefits)

----------------------------------------------------------------------------
(* The benefit realization curve *)

\* Mutants of calculate_benefit_realization_factor (used to test the claims)
factor_no_delay_subtracted(month, arg_implementation_delay_months, ramp_up_months) ==
    IF month <= arg_implementation_delay_months
    THEN [branch |-> "delay", value |-> Zero]
    ELSE IF month <= arg_implementation_delay_months + ramp_up_months
    THEN [branch |-> "ramp", value |-> RDiv(R(month), R(ramp_up_months))]
    ELSE [branch |-> "full", value |-> One]

factor_strict_delay_test(month, arg_implementation_delay_months, ramp_up_months) ==
    IF month < arg_implementation_delay_months
    THEN [branch |-> "delay", value |-> Zero]
    ELSE IF month <= arg_implementation_delay_months + ramp_up_months
    THEN [branch |-> "ramp",
          value |-> RDiv(R(month - arg_implementation_delay_months), R(ramp_up_months))]
    ELSE [branch |-> "full", value |-> One]

factor_ramp_off_by_one(month, arg_implementation_delay_months, ramp_up_months) ==
    IF month <= arg_implementation_delay_months
    THEN [branch |-> "delay", value |-> Zero]
    ELSE IF month <= arg_implementation_delay_months + ramp_up_months
    THEN [branch |-> "ramp",
          value |-> RDiv(R(month - arg_implementation_delay_months), R(ramp_up_months + 1))]
    ELSE [branch |-> "full", value |-> One]

\* The branch taken and the value returned (the parameter that shadows the global
\* implementation_delay_months is written arg_implementation_delay_months)
calculate_benefit_realization_factor(month, arg_implementation_delay_months, ramp_up_months) ==
    IF month <= arg_implementation_delay_months
    THEN [branch |-> "delay", value |-> Zero]
    ELSE IF month <= arg_implementation_delay_months + ramp_up_months
    THEN LET months_since_golive == month - arg_implementation_delay_months
         IN  [branch |-> "ramp",
              value |-> RDiv(R(months_since_golive), R(ramp_up_months))]
    ELSE [branch |-> "full", value |-> One]

\* --- the curve applied month after month for drawn delay and ramp ---

FactorInit ==
    /\ pc = "factor"
    /\ CostIdle
    /\ BaselineIdle
    /\ ScenarioIdle
    /\ IoIdle
    /\ FloatIdle
    /\ SideIdle
    /\ f_delay \in 0..MaxDelayArg
    /\ f_ramp \in 0..MaxRampArg
    /\ f_month = 0
    /\ f_hist = <<>>

FactorCall ==
    /\ pc = "factor"
    /\ f_month < MaxMonthArg
    /\ f_month' = f_month + 1
    /\ f_hist' = Append(f_hist,
                        calculate_benefit_realization_factor(f_month + 1, f_delay, f_ramp))
    /\ UNCHANGED <<pc, f_delay, f_ramp>>
    /\ UNCHANGED <<costVars, baselineVars, scenarioVars>>
    /\ UNCHANGED ioVars
    /\ UNCHANGED floatVars
    /\ UNCHANGED sideVars

FactorNext == FactorCall

SpecFactor == FactorInit /\ [][FactorNext]_vars

----------------------------------------------------------------------------
(* Claims about the realization curve *)

\* C6: for month >= 1, delay >= 0, ramp >= 0 the factor is a number in [0,1]:
\* 0 when month <= delay, (month - delay)/ramp when delay < month <= delay + ramp,
\* 1 when month > delay + ramp; at month = delay + ramp with ramp > 0 the ramp
\* formula is the one used and it yields exactly 1.
C6_FactorCases ==
    f_month >= 1 =>
        LET m == f_month
            v == f_hist[m].value
        IN
        /\ IsRat(v)
        /\ RLe(Zero, v) /\ RLe(v, One)
        /\ (m <= f_delay) => v = Zero
        /\ (f_delay < m /\ m <= f_delay + f_ramp) =>
               RMul(v, R(f_ramp)) = R(m - f_delay)
        /\ (m > f_delay + f_ramp) => v = One
        /\ (f_ramp > 0 /\ m = f_delay + f_ramp) =>
               (f_hist[m].branch = "ramp" /\ v = One)

C6_Witness ==
    /\ pc = "factor"
    /\ f_ramp = 3 /\ f_delay = 6 /\ f_month = 10
    /\ f_hist[6].value = Zero
    /\ f_hist[8].value = <<2, 3>>
    /\ f_hist[9].branch = "ramp" /\ f_hist[9].value = One
    /\ f_hist[10].branch = "full"

\* C7: for fixed delay and ramp the factor is non-decreasing in month: the value
\* returned for the latest month m2 is >= the value returned for every m1 <= m2
\* (every prefix of the calls is a reachable state, so this covers all pairs).
C7_FactorMonotone ==
    \A m1 \in DOMAIN f_hist :
        /\ IsRat(f_hist[m1].value) /\ IsRat(f_hist[f_month].value)
        /\ RLe(f_hist[m1].value, f_hist[f_month].value)

C7_Witness ==
    /\ pc = "factor"
    /\ f_ramp = 4 /\ f_delay = 2 /\ f_month = 8
    /\ RLt(f_hist[2].value, f_hist[3].value)
    /\ RLt(f_hist[3].value, f_hist[4].value)
    /\ RLt(f_hist[5].value, f_hist[6].value)
    /\ f_hist[7].value = f_hist[8].value

\* C8: with ramp_months = 0 the linear-ramp branch is never entered, so no
\* division by zero happens: months <= delay give 0, months > delay give 1.
C8_ZeroRampNeverDivides ==
    (f_ramp = 0 /\ f_month >= 1) =>
        LET m == f_month IN
            /\ f_hist[m].branch # "ramp"
            /\ f_hist[m].value # DivError
            /\ (m <= f_delay) => f_hist[m].value = Zero
            /\ (m > f_delay) => f_hist[m].value = One

C8_Witness ==
    /\ pc = "factor"
    /\ f_ramp = 0 /\ f_delay = 5 /\ f_month = 7
    /\ f_hist[5].branch = "delay"
    /\ f_hist[6].branch = "full"

----------------------------------------------------------------------------
(* The scenario projection *)

Max(a, b) == IF a >= b THEN a ELSE b

\* Mutant of Trunc (used to test the claims): rounding to the nearest integer
int_rounds_to_nearest(x) ==
    IF x[1] >= 0 THEN (2 * x[1] + x[2]) \div (2 * x[2])
    ELSE -((2 * (-x[1]) + x[2]) \div (2 * x[2]))

\* Python's int(x): truncation toward zero
Trunc(x) == IF x[1] >= 0 THEN x[1] \div x[2] ELSE -((-x[1]) \div x[2])

\* Python's sum over a list
\* Python's sum: the running total, starting from 0, takes the items from left
\* to right; each running total is a value (its denominator is positive) before
\* the next item is added
RECURSIVE RSumFrom(_, _, _)
RSumFrom(seq, i, total) ==
    IF total[2] > 0 /\ i <= Len(seq) THEN RSumFrom(seq, i + 1, RAdd(total, seq[i]))
    ELSE total

RSum(seq) == RSumFrom(seq, 1, Zero)

\* a ** n for an integer n >= 0
RECURSIVE RPow(_, _)
RPow(a, n) == IF n = 0 THEN One ELSE RMul(a, RPow(a, n - 1))

\* np.mean of a non-empty list
Mean(seq) == RDiv(RSum(seq), R(Len(seq)))

\* Mutant of scenarios (used to test the claims): the delay multipliers of the
\* Conservative and the Optimistic scenario exchanged
scenarios_delay_multipliers_exchanged ==
    [Conservative |-> [benefits_multiplier |-> Norm(7, 10),
                       implementation_delay_multiplier |-> Norm(8, 10),
                       description |-> "Benefits 30% lower, implementation 30% longer",
                       color |-> "#ff6b6b", icon |-> "red"],
     Expected |-> [benefits_multiplier |-> One,
                   implementation_delay_multiplier |-> One,
                   description |-> "Baseline assumptions as entered",
                   color |-> "#4ecdc4", icon |-> "green"],
     Optimistic |-> [benefits_multiplier |-> Norm(12, 10),
                     implementation_delay_multiplier |-> Norm(13, 10),
                     description |-> "Benefits 20% higher, implementation 20% faster",
                     color |-> "#45b7d1", icon |-> "blue"]]

\* The scenarios dictionary, and the order in which a loop over it visits its keys
scenarios ==
    [Conservative |-> [benefits_multiplier |-> Norm(7, 10),
                       implementation_delay_multiplier |-> Norm(13, 10),
                       description |-> "Benefits 30% lower, implementation 30% longer",
                       color |-> "#ff6b6b", icon |-> "red"],
     Expected |-> [benefits_multiplier |-> One,
                   implementation_delay_multiplier |-> One,
                   description |-> "Baseline assumptions as entered",
                   color |-> "#4ecdc4", icon |-> "green"],
     Optimistic |-> [benefits_multiplier |-> Norm(12, 10),
                     implementation_delay_multiplier |-> Norm(8, 10),
                     description |-> "Benefits 20% higher, implementation 20% faster",
                     color |-> "#45b7d1", icon |-> "blue"]]
ScenarioOrder == <<"Conservative", "Expected", "Optimistic">>

\* Mutants of ScenarioCashFlow (used to test the claims)
cash_flow_services_every_year(year, scenario_benefits, scenario_impl_delay, scenario_ramp_up) ==
    LET year_start_month == (year - 1) * 12 + 1
        year_end_month == year * 12
        monthly_factors ==
            [i \in 1..(year_end_month - year_start_month + 1) |->
                calculate_benefit_realization_factor(year_start_month + i - 1,
                    scenario_impl_delay, scenario_ramp_up).value]
        avg_realization_factor == Mean(monthly_factors)
        year_benefits == RMul(scenario_benefits, avg_realization_factor)
        year_platform_cost == R(platform_cost)
        year_services_cost == R(services_cost)
        year_net_cash_flow ==
            RSub(RSub(year_benefits, year_platform_cost), year_services_cost)
    IN  [year |-> year, benefits |-> year_benefits, platform_cost |-> year_platform_cost,
         services_cost |-> year_services_cost, net_cash_flow |-> year_net_cash_flow,
         realization_factor |-> avg_realization_factor]

\* One turn of the year loop, lines 902-923
ScenarioCashFlow(year, scenario_benefits, scenario_impl_delay, scenario_ramp_up) ==
    LET year_start_month == (year - 1) * 12 + 1
        year_end_month == year * 12
        monthly_factors ==
            [i \in 1..(year_end_month - year_start_month + 1) |->
                calculate_benefit_realization_factor(year_start_month + i - 1,
                    scenario_impl_delay, scenario_ramp_up).value]
        avg_realization_factor == Mean(monthly_factors)
        year_benefits == RMul(scenario_benefits, avg_realization_factor)
        year_platform_cost == R(platform_cost)
        year_services_cost == IF year = 1 THEN R(services_cost) ELSE Zero
        year_net_cash_flow ==
            RSub(RSub(year_benefits, year_platform_cost), year_services_cost)
    IN  [year |-> year, benefits |-> year_benefits, platform_cost |-> year_platform_cost,
         services_cost |-> year_services_cost, net_cash_flow |-> year_net_cash_flow,
         realization_factor |-> avg_realization_factor]

\* Mutant of ScenarioNPV (used to test the claims): the first year taken as year 0
npv_first_year_undiscounted(scenario_cash_flows) ==
    RSum([i \in 1..Len(scenario_cash_flows) |->
            RDiv(scenario_cash_flows[i].net_cash_flow,
                 RPow(RAdd(One, discount_rate), scenario_cash_flows[i].year - 1))])

\* lines 926-928
ScenarioNPV(scenario_cash_flows) ==
    RSum([i \in 1..Len(scenario_cash_flows) |->
            RDiv(scenario_cash_flows[i].net_cash_flow,
                 RPow(RAdd(One, discount_rate), scenario_cash_flows[i].year))])

\* Mutant of ScenarioTCO (used to test the claims): the services cost left out
tco_platform_only(scenario_cash_flows) ==
    RSum([i \in 1..Len(scenario_cash_flows) |-> scenario_cash_flows[i].platform_cost])

ScenarioTCO(scenario_cash_flows) ==
    RSum([i \in 1..Len(scenario_cash_flows) |->
            RAdd(scenario_cash_flows[i].platform_cost,
                 scenario_cash_flows[i].services_cost)])

ScenarioROI(scenario_npv, scenario_tco) ==
    IF scenario_tco # Zero THEN RDiv(scenario_npv, scenario_tco) ELSE Zero

\* Mutant of ScenarioPayback (used to test the claims): each year's net cash flow
\* tested alone, not the running sum
RECURSIVE payback_first_positive_year(_, _, _)
payback_first_positive_year(scenario_cash_flows, i, cumulative_net_cash_flow) ==
    IF i > Len(scenario_cash_flows) THEN "N/A"
    ELSE IF RLe(Zero, scenario_cash_flows[i].net_cash_flow)
         THEN ToString(scenario_cash_flows[i].year) \o " years"
         ELSE payback_first_positive_year(scenario_cash_flows, i + 1,
                                          cumulative_net_cash_flow)

\* The payback loop, lines 931-937, from its i-th turn on
RECURSIVE ScenarioPayback(_, _, _)
ScenarioPayback(scenario_cash_flows, i, cumulative_net_cash_flow) ==
    IF i > Len(scenario_cash_flows) THEN "N/A"
    ELSE LET cumulative == RAdd(cumulative_net_cash_flow,
                                scenario_cash_flows[i].net_cash_flow)
         IN  IF RLe(Zero, cumulative)
             THEN ToString(scenario_cash_flows[i].year) \o " years"
             ELSE ScenarioPayback(scenario_cash_flows, i + 1, cumulative)

\* The year loop, lines 900-923, from year on
RECURSIVE ScenarioCashFlowLoop(_, _, _, _, _)
ScenarioCashFlowLoop(scenario_cash_flows, year, scenario_benefits, scenario_impl_delay, scenario_ramp_up) ==
    IF year > evaluation_years THEN scenario_cash_flows
    ELSE ScenarioCashFlowLoop(
             Append(scenario_cash_flows,
                    ScenarioCashFlow(year, scenario_benefits, scenario_impl_delay,
                                     scenario_ramp_up)),
             year + 1, scenario_benefits, scenario_impl_delay, scenario_ramp_up)

\* Mutant of calculate_scenario_results (used to test the claims): the ramp-up scaled
\* by the delay multiplier like the delay
scenario_results_ramp_scaled(benefits_multiplier, implementation_delay_multiplier, scenario_name) ==
    LET scenario_benefits == RMul(total_annual_benefits, benefits_multiplier)
        scenario_impl_delay ==
            Max(0, Trunc(RMul(R(implementation_delay_months),
                            implementation_delay_multiplier)))
        scenario_ramp_up ==
            Max(0, Trunc(RMul(R(benefits_ramp_up_months),
                            implementation_delay_multiplier)))
        scenario_cash_flows ==
            ScenarioCashFlowLoop(<<>>, 1, scenario_benefits, scenario_impl_delay,
                                 scenario_ramp_up)
        scenario_npv == ScenarioNPV(scenario_cash_flows)
        scenario_tco == ScenarioTCO(scenario_cash_flows)
        scenario_roi == ScenarioROI(scenario_npv, scenario_tco)
        scenario_payback == ScenarioPayback(scenario_cash_flows, 1, Zero)
    IN  [npv |-> scenario_npv, roi |-> scenario_roi, payback |-> scenario_payback,
         impl_delay |-> scenario_impl_delay, benefits_mult |-> benefits_multiplier,
         cash_flows |-> scenario_cash_flows, annual_benefits |-> scenario_benefits]

\* lines 892-947; reads the globals total_annual_benefits, implementation_delay_months,
\* benefits_ramp_up_months, evaluation_years, platform_cost, services_cost, discount_rate
calculate_scenario_results(benefits_multiplier, implementation_delay_multiplier, scenario_name) ==
    LET scenario_benefits == RMul(total_annual_benefits, benefits_multiplier)
        scenario_impl_delay ==
            Max(0, Trunc(RMul(R(implementation_delay_months),
                            implementation_delay_multiplier)))
        scenario_ramp_up == benefits_ramp_up_months
        scenario_cash_flows ==
            ScenarioCashFlowLoop(<<>>, 1, scenario_benefits, scenario_impl_delay,
                                 scenario_ramp_up)
        scenario_npv == ScenarioNPV(scenario_cash_flows)
        scenario_tco == ScenarioTCO(scenario_cash_flows)
        scenario_roi == ScenarioROI(scenario_npv, scenario_tco)
        scenario_payback == ScenarioPayback(scenario_cash_flows, 1, Zero)
    IN  [npv |-> scenario_npv, roi |-> scenario_roi, payback |-> scenario_payback,
         impl_delay |-> scenario_impl_delay, benefits_mult |-> benefits_multiplier,
         cash_flows |-> scenario_cash_flows, annual_benefits |-> scenario_benefits]

\* One month's net cash flow, lines 1022-1027 and 1754-1759
MonthlyNetCashFlow(month, annual_benefits, annual_platform_cost, arg_implementation_delay_months, arg_benefits_ramp_up_months) ==
    LET factor == calculate_benefit_realization_factor(month,
                      arg_implementation_delay_months, arg_benefits_ramp_up_months).value
        monthly_benefit == RMul(RDiv(annual_benefits, R(12)), factor)
        monthly_platform_cost == RDiv(R(annual_platform_cost), R(12))
    IN  RSub(monthly_benefit, monthly_platform_cost)

\* The month loop of calculate_payback_months, lines 1021-1033, from month on
RECURSIVE PaybackMonthLoop(_, _, _, _, _, _, _)
PaybackMonthLoop(month, cumulative_cash_flow, annual_benefits, annual_platform_cost, arg_implementation_delay_months, arg_benefits_ramp_up_months, max_months_eval) ==
    LET cumulative ==
            RAdd(cumulative_cash_flow,
                 MonthlyNetCashFlow(month, annual_benefits, annual_platform_cost,
                     arg_implementation_delay_months, arg_benefits_ramp_up_months))
    IN  CASE month > max_months_eval -> "N/A"
          [] month <= max_months_eval /\ RLe(Zero, cumulative) ->
                 ToString(month) \o " months"
          [] OTHER -> PaybackMonthLoop(month + 1, cumulative, annual_benefits,
                          annual_platform_cost, arg_implementation_delay_months,
                          arg_benefits_ramp_up_months, max_months_eval)

\* Mutant of calculate_payback_months (used to test the claims): the horizon left at
\* its default of 60 months
payback_months_default_horizon(annual_benefits, annual_platform_cost, one_time_services_cost, arg_implementation_delay_months, arg_benefits_ramp_up_months, max_months_eval) ==
    PaybackMonthLoop(1, RSub(Zero, R(one_time_services_cost)), annual_benefits,
        annual_platform_cost, arg_implementation_delay_months,
        arg_benefits_ramp_up_months, 60)

\* lines 1011-1035
calculate_payback_months(annual_benefits, annual_platform_cost, one_time_services_cost, arg_implementation_delay_months, arg_benefits_ramp_up_months, max_months_eval) ==
    PaybackMonthLoop(1, RSub(Zero, R(one_time_services_cost)), annual_benefits,
        annual_platform_cost, arg_implementation_delay_months,
        arg_benefits_ramp_up_months, max_months_eval)

\* The month loop of get_monthly_cumulative_cash_flow, lines 1753-1767, from month on;
\* monthly_data holds the rows of the months 0..month-1, so the loop has ended when
\* it holds more than total_months rows
RECURSIVE MonthlyDataLoop(_, _, _, _, _, _, _, _)
MonthlyDataLoop(monthly_data, cumulative_cash_flow, month, total_months, annual_benefits, annual_platform_cost, arg_implementation_delay_months, arg_benefits_ramp_up_months) ==
    IF Len(monthly_data) > total_months \/ month > total_months THEN monthly_data
    ELSE LET monthly_net_cash_flow ==
                 MonthlyNetCashFlow(month, annual_benefits, annual_platform_cost,
                     arg_implementation_delay_months, arg_benefits_ramp_up_months)
             cumulative == RAdd(cumulative_cash_flow, monthly_net_cash_flow)
         IN  MonthlyDataLoop(
                 Append(monthly_data,
                        [month |-> month, net_cash_flow |-> monthly_net_cash_flow,
                         cumulative_net_cash_flow |-> cumulative]),
                 cumulative, month + 1, total_months, annual_benefits,
                 annual_platform_cost, arg_implementation_delay_months,
                 arg_benefits_ramp_up_months)

\* Mutant of get_monthly_cumulative_cash_flow: the running total not started at the
\* services cost
monthly_cash_flow_cumulative_from_zero(annual_benefits, annual_platform_cost, one_time_services_cost, arg_implementation_delay_months, arg_benefits_ramp_up_months, arg_evaluation_years) ==
    LET total_months == arg_evaluation_years * 12
        upfront == RSub(Zero, R(one_time_services_cost))
    IN  MonthlyDataLoop(
            <<[month |-> 0, net_cash_flow |-> upfront,
               cumulative_net_cash_flow |-> upfront]>>,
            Zero, 1, total_months, annual_benefits, annual_platform_cost,
            arg_implementation_delay_months, arg_benefits_ramp_up_months)

\* lines 1743-1768; the rows of the data frame, in order
get_monthly_cumulative_cash_flow(annual_benefits, annual_platform_cost, one_time_services_cost, arg_implementation_delay_months, arg_benefits_ramp_up_months, arg_evaluation_years) ==
    LET total_months == arg_evaluation_years * 12
        upfront == RSub(Zero, R(one_time_services_cost))
    IN  MonthlyDataLoop(
            <<[month |-> 0, net_cash_flow |-> upfront,
               cumulative_net_cash_flow |-> upfront]>>,
            upfront, 1, total_months, annual_benefits, annual_platform_cost,
            arg_implementation_delay_months, arg_benefits_ramp_up_months)

\* --- the script from the scenario loop to the monthly chart, for drawn inputs ---

AnnualBenefits == {0, 1440, 4320}
PlatformCosts == {0, 600, 1500}
ServicesCosts == {0, 500}
DiscountPcts == {0, 10}

Init ==
    /\ pc = "scenario_loop"
    /\ total_annual_benefits \in {R(b) : b \in AnnualBenefits}
    /\ implementation_delay_months \in 0..MaxDelay
    /\ benefits_ramp_up_months \in 0..MaxRamp
    /\ platform_cost \in PlatformCosts
    /\ services_cost \in ServicesCosts
    /\ evaluation_years \in 1..MaxYears
    /\ discount_rate \in {Norm(k, 100) : k \in DiscountPcts}
    /\ scenario_results = <<>>
    /\ expected_monthly_cf_df = <<>>
    /\ inputs = <<>> /\ costs = <<>> /\ savings = <<>>
    /\ CostIdle
    /\ FactorIdle
    /\ IoIdle
    /\ FloatIdle
    /\ SideIdle

\* The first key, in dictionary order, among the keys todo
FirstScenario(todo) ==
    LET idx == {i \in 1..Len(ScenarioOrder) : ScenarioOrder[i] \in todo}
    IN  ScenarioOrder[CHOOSE i \in idx : \A j \in idx : i <= j]

\* Mutant of RunScenario (used to test the claims): the run leaves its scaled benefits
\* in the shared total_annual_benefits
RunScenarioKeepsScaledBenefits ==
    /\ pc = "scenario_loop"
    /\ LET not_run == DOMAIN scenarios \ DOMAIN scenario_results
           scenario_name == FirstScenario(not_run)
           params == scenarios[scenario_name]
           result == calculate_scenario_results(params.benefits_multiplier,
                         params.implementation_delay_multiplier, scenario_name)
           updated == [color |-> params.color, description |-> params.description,
                       icon |-> params.icon] @@ result
       IN  /\ scenario_results' = (scenario_name :> updated) @@ scenario_results
           /\ total_annual_benefits' = result.annual_benefits
           /\ pc' = IF scenario_name = ScenarioOrder[Len(ScenarioOrder)]
                    THEN "payback_loop" ELSE "scenario_loop"
    /\ UNCHANGED <<timelineVars, expected_monthly_cf_df>>
    /\ UNCHANGED <<factorVars, costVars, inputs, costs, savings>>
    /\ UNCHANGED ioVars
    /\ UNCHANGED floatVars
    /\ UNCHANGED sideVars

\* One turn of the loop of lines 975-985
RunScenario ==
    /\ pc = "scenario_loop"
    /\ LET not_run == DOMAIN scenarios \ DOMAIN scenario_results
           scenario_name == FirstScenario(not_run)
           params == scenarios[scenario_name]
           result == calculate_scenario_results(params.benefits_multiplier,
                         params.implementation_delay_multiplier, scenario_name)
           updated == [color |-> params.color, description |-> params.description,
                       icon |-> params.icon] @@ result
       IN  /\ scenario_results' = (scenario_name :> updated) @@ scenario_results
           /\ pc' = IF scenario_name = ScenarioOrder[Len(ScenarioOrder)]
                    THEN "payback_loop" ELSE "scenario_loop"
    /\ UNCHANGED <<timelineVars, expected_monthly_cf_df>>
    /\ UNCHANGED <<factorVars, costVars, baselineVars>>
    /\ UNCHANGED ioVars
    /\ UNCHANGED floatVars
    /\ UNCHANGED sideVars

\* One turn of the loop of lines 1038-1051
UpdatePaybackMonths ==
    /\ pc = "payback_loop"
    /\ LET not_updated == {n \in DOMAIN scenario_results :
                              "payback_months" \notin DOMAIN scenario_results[n]}
           scenario_name == FirstScenario(not_updated)
           params == scenarios[scenario_name]
           scenario_annual_benefits_for_payback ==
               RMul(total_annual_benefits, params.benefits_multiplier)
           scenario_impl_delay_for_payback ==
               Max(0, Trunc(RMul(R(implementation_delay_months),
                               params.implementation_delay_multiplier)))
           payback_months ==
               calculate_payback_months(scenario_annual_benefits_for_payback,
                   platform_cost, services_cost, scenario_impl_delay_for_payback,
                   benefits_ramp_up_months, evaluation_years * 12)
       IN  /\ scenario_results' =
                  [scenario_results EXCEPT
                      ![scenario_name] = [payback_months |-> payback_months] @@ @]
           /\ pc' = IF scenario_name = ScenarioOrder[Len(ScenarioOrder)]
                    THEN "monthly_chart" ELSE "payback_loop"
    /\ UNCHANGED <<timelineVars, expected_monthly_cf_df>>
    /\ UNCHANGED <<factorVars, costVars, baselineVars>>
    /\ UNCHANGED ioVars
    /\ UNCHANGED floatVars
    /\ UNCHANGED sideVars

\* lines 1770-1777
MonthlyCashFlowChart ==
    /\ pc = "monthly_chart"
    /\ expected_monthly_cf_df' =
           get_monthly_cumulative_cash_flow(
               RMul(total_annual_benefits, scenarios["Expected"].benefits_multiplier),
               platform_cost, services_cost, implementation_delay_months,
               benefits_ramp_up_months, evaluation_years)
    /\ pc' = "done"
    /\ UNCHANGED <<timelineVars, scenario_results>>
    /\ UNCHANGED <<factorVars, costVars, baselineVars>>
    /\ UNCHANGED ioVars
    /\ UNCHANGED floatVars
    /\ UNCHANGED sideVars

Next == RunScenario \/ UpdatePaybackMonths \/ MonthlyCashFlowChart

Spec == Init /\ [][Next]_vars

----------------------------------------------------------------------------
\* --- the same script over the whole range of the timeline sliders ---

\* the largest values of the sliders implementation_delay, benefits_ramp_up and
\* evaluation_years
SliderMaxDelay == 24
SliderMaxRamp == 12
SliderMaxYears == 5

HorizonPlatformCosts == {600, 1500}
HorizonServicesCosts == {0, 500}

\* every position of the three timeline sliders, with annual benefits of 1440 at a
\* discount rate of 20%
SliderRangeInit ==
    /\ total_annual_benefits = R(1440)
    /\ implementation_delay_months \in 0..SliderMaxDelay
    /\ benefits_ramp_up_months \in 0..SliderMaxRamp
    /\ platform_cost \in HorizonPlatformCosts
    /\ services_cost \in HorizonServicesCosts
    /\ evaluation_years \in 1..SliderMaxYears
    /\ discount_rate = Norm(20, 100)

\* the default sliders (delay 6, ramp-up 3, 3 years, 10%) with benefits of 100000,
\* platform cost 10000 and services cost 5000
DefaultSlidersInit ==
    /\ total_annual_benefits = R(100000)
    /\ implementation_delay_months = 6
    /\ benefits_ramp_up_months = 3
    /\ platform_cost = 10000
    /\ services_cost = 5000
    /\ evaluation_years = 3
    /\ discount_rate = Norm(10, 100)

HorizonInit ==
    /\ pc = "scenario_loop"
    /\ SliderRangeInit \/ DefaultSlidersInit
    /\ scenario_results = <<>>
    /\ expected_monthly_cf_df = <<>>
    /\ inputs = <<>> /\ costs = <<>> /\ savings = <<>>
    /\ CostIdle
    /\ FactorIdle
    /\ IoIdle
    /\ FloatIdle
    /\ SideIdle

SpecHorizon == HorizonInit /\ [][Next]_vars

----------------------------------------------------------------------------
(* Claims about the cash-flow projection *)

\* The curve as the specification words it
CurveValue(m, d, r) ==
    IF m <= d THEN Zero ELSE IF m > d + r THEN One ELSE Norm(m - d, r)

\* The sum of the curve over months from..to
RECURSIVE CurveSum(_, _, _, _)
CurveSum(from, to, d, r) ==
    IF from > to THEN Zero
    ELSE RAdd(CurveValue(from, d, r), CurveSum(from + 1, to, d, r))

\* C9: a scenario's result holds exactly evaluation_years cash-flow records, for the
\* years 1..evaluation_years in order; in the record of year y the benefits are the
\* scenario's annual benefits times the mean of the realization factor over the
\* months (y-1)*12+1 .. y*12, the platform cost is the full annual platform cost,
\* the services cost is the one-time cost in year 1 and 0 later, and
\* net_cash_flow = benefits - platform_cost - services_cost.
C9_AnnualCashFlowRecords ==
    \A n \in DOMAIN scenario_results :
        LET r == scenario_results[n]
            cfs == r.cash_flows
        IN
        /\ DOMAIN cfs = 1..evaluation_years
        /\ \A y \in DOMAIN cfs :
            /\ cfs[y].year = y
            /\ RMul(cfs[y].benefits, R(12)) =
                   RMul(r.annual_benefits,
                        CurveSum((y - 1) * 12 + 1, y * 12, r.impl_delay,
                                 benefits_ramp_up_months))
            /\ cfs[y].platform_cost = R(platform_cost)
            /\ cfs[y].services_cost = (IF y = 1 THEN R(services_cost) ELSE Zero)
            /\ RAdd(cfs[y].net_cash_flow,
                    RAdd(cfs[y].platform_cost, cfs[y].services_cost))
                 = cfs[y].benefits

C9_Witness ==
    /\ pc = "payback_loop"
    /\ evaluation_years = 3 /\ services_cost = 500 /\ platform_cost = 600
    /\ implementation_delay_months = 6 /\ benefits_ramp_up_months = 3
    /\ total_annual_benefits = R(1440)
    /\ LET cfs == scenario_results["Expected"].cash_flows IN
        /\ Len(cfs) = 3
        /\ cfs[1].benefits = R(600) /\ cfs[1].net_cash_flow = R(-500)
        /\ cfs[2].benefits = R(1440) /\ cfs[2].services_cost = Zero
        /\ cfs[3].net_cash_flow = R(840)

\* C10: the monthly cumulative cash flow has evaluation_years*12 + 1 rows, for the
\* months 0..evaluation_years*12 in order; the month-0 row has net_cash_flow =
\* cumulative = -one_time_services_cost and nothing else in it, and for every month
\* m >= 1 the cumulative of the row is the cumulative of the row before plus
\* (annual_benefits/12) * factor(m) - annual_platform_cost/12.
C10_MonthlyCumulativeRows ==
    pc = "done" =>
        LET rows == expected_monthly_cf_df
            annual_benefits == total_annual_benefits
        IN
        /\ Len(rows) = evaluation_years * 12 + 1
        /\ \A i \in DOMAIN rows :
               /\ rows[i].month = i - 1
               /\ DOMAIN rows[i] = {"month", "net_cash_flow", "cumulative_net_cash_flow"}
        /\ rows[1].net_cash_flow = R(-services_cost)
        /\ rows[1].cumulative_net_cash_flow = R(-services_cost)
        /\ \A m \in 1..(evaluation_years * 12) :
               RMul(RSub(rows[m + 1].cumulative_net_cash_flow,
                         rows[m].cumulative_net_cash_flow), R(12))
                 = RSub(RMul(annual_benefits,
                             CurveValue(m, implementation_delay_months,
                                        benefits_ramp_up_months)),
                        R(platform_cost))

C10_Witness ==
    /\ pc = "done"
    /\ evaluation_years = 2 /\ services_cost = 500 /\ platform_cost = 600
    /\ implementation_delay_months = 2 /\ benefits_ramp_up_months = 2
    /\ total_annual_benefits = R(1440)
    /\ Len(expected_monthly_cf_df) = 25
    /\ expected_monthly_cf_df[1].cumulative_net_cash_flow = R(-500)
    /\ expected_monthly_cf_df[3].cumulative_net_cash_flow = R(-600)
    /\ expected_monthly_cf_df[4].cumulative_net_cash_flow = R(-590)
    /\ expected_monthly_cf_df[5].cumulative_net_cash_flow = R(-520)

\* The multipliers of a scenario, in tenths
DelayTenths(n) == CASE n = "Conservative" -> 13 [] n = "Expected" -> 10 [] n = "Optimistic" -> 8
BenefitTenths(n) == CASE n = "Conservative" -> 7 [] n = "Expected" -> 10 [] n = "Optimistic" -> 12

\* C11: in every scenario the implementation delay used is base_delay *
\* delay_multiplier truncated toward zero to an integer month count, never negative
\* (base 6 gives 7 with multiplier 1.3 and 4 with multiplier 0.8), and the scenario's
\* annual benefits are the base annual benefits times the benefits multiplier.
C11_DelayTruncatedBenefitsScaled ==
    \A n \in DOMAIN scenario_results :
        LET r == scenario_results[n]
            d == implementation_delay_months
        IN
        /\ r.impl_delay \in Nat
        /\ 10 * r.impl_delay <= DelayTenths(n) * d
        /\ DelayTenths(n) * d < 10 * r.impl_delay + 10
        /\ (d = 6 /\ n = "Conservative") => r.impl_delay = 7
        /\ (d = 6 /\ n = "Optimistic") => r.impl_delay = 4
        /\ RMul(r.annual_benefits, R(10)) =
               RMul(total_annual_benefits, R(BenefitTenths(n)))

C11_Witness ==
    /\ pc = "payback_loop"
    /\ implementation_delay_months = 6
    /\ total_annual_benefits = R(1440)
    /\ scenario_results["Conservative"].impl_delay = 7
    /\ scenario_results["Expected"].impl_delay = 6
    /\ scenario_results["Optimistic"].impl_delay = 4
    /\ scenario_results["Conservative"].annual_benefits = R(1008)
    /\ scenario_results["Optimistic"].annual_benefits = R(1728)

\* The sum of the curve over the months 1..m, in closed form: the ramp months
\* contribute 1/r + 2/r + ... and every later month contributes 1
CurveSumTo(m, d, r) ==
    LET live == Max(m - d, 0)
        t == IF live <= r THEN live ELSE r
    IN  RAdd(IF r > 0 THEN Norm(t * (t + 1), 2 * r) ELSE Zero, R(Max(live - r, 0)))

\* Twelve times the cumulative cash flow after month m >= 0 of a run that starts at
\* -s and adds (b/12) * curve - p/12 every month
Cumulative12(m, b, p, s, d, r) ==
    RSub(RMul(b, CurveSumTo(m, d, r)), R(m * p + 12 * s))

\* The label of the first month in 1..h at which that cumulative is >= 0
FirstMonthLabel(b, p, s, d, r, h) ==
    LET hits == {m \in 1..h : RLe(Zero, Cumulative12(m, b, p, s, d, r))}
    IN  IF hits = {} THEN "N/A"
        ELSE ToString(CHOOSE m \in hits : \A k \in hits : m <= k) \o " months"

\* The delay and the annual benefits of scenario n, from the base inputs
DelayOf(n) == (DelayTenths(n) * implementation_delay_months) \div 10
BenefitsOf(n) == RDiv(RMul(total_annual_benefits, R(BenefitTenths(n))), R(10))

\* C12: the ramp-up duration given to the realization curve is the base
\* benefits_ramp_up_months in every scenario, in the annual cash flows (each year's
\* realization factor is the mean of the curve with the base ramp-up) and in the
\* monthly payback (the label is the one the base ramp-up gives); no multiplier
\* changes it.
C12_RampUpNotScaled ==
    \A n \in DOMAIN scenario_results :
        LET r == scenario_results[n]
            ramp == benefits_ramp_up_months
        IN
        /\ \A y \in DOMAIN r.cash_flows :
               RMul(r.cash_flows[y].realization_factor, R(12)) =
                   RSub(CurveSumTo(12 * y, DelayOf(n), ramp),
                        CurveSumTo(12 * (y - 1), DelayOf(n), ramp))
        /\ "payback_months" \in DOMAIN r =>
               r.payback_months =
                   FirstMonthLabel(BenefitsOf(n), platform_cost, services_cost,
                                   DelayOf(n), ramp, evaluation_years * 12)

\* base delay 5 and ramp-up 3: the Conservative delay is 6, so its first year holds
\* the ramp months 7, 8, 9 and three full months (factor 5/12); the Optimistic delay
\* is 4, with ramp months 5, 6, 7 and five full months (factor 7/12)
C12_Witness ==
    /\ pc = "monthly_chart"
    /\ implementation_delay_months = 5 /\ benefits_ramp_up_months = 3
    /\ total_annual_benefits = R(1440) /\ platform_cost = 600 /\ services_cost = 500
    /\ evaluation_years = 2
    /\ scenario_results["Conservative"].cash_flows[1].realization_factor = Norm(5, 12)
    /\ scenario_results["Optimistic"].cash_flows[1].realization_factor = Norm(7, 12)
    /\ scenario_results["Optimistic"].payback_months = "13 months"

\* The value, one period before year y, of the net cash flows of the years y, y+1, ...:
\* each year's flow joins the later ones and the whole is discounted by one period
RECURSIVE DiscountedFrom(_, _)
DiscountedFrom(cfs, y) ==
    IF y > Len(cfs) THEN Zero
    ELSE RDiv(RAdd(cfs[y].net_cash_flow, DiscountedFrom(cfs, y + 1)),
              RAdd(One, discount_rate))

\* C13: a scenario's NPV is the sum over y = 1..evaluation_years of
\* net_cash_flow[y] / (1 + discount_rate)^y; the first year's flow, services cost
\* included, is discounted by one full period and no term is left undiscounted.
C13_NPVDiscountsFromYearOne ==
    \A n \in DOMAIN scenario_results :
        LET r == scenario_results[n]
        IN  /\ r.npv = DiscountedFrom(r.cash_flows, 1)
            /\ evaluation_years = 1 =>
                   RMul(r.npv, RAdd(One, discount_rate)) =
                       RSub(RSub(r.cash_flows[1].benefits, R(platform_cost)),
                            R(services_cost))

C13_Witness ==
    /\ pc = "payback_loop"
    /\ discount_rate = Norm(10, 100) /\ evaluation_years = 2
    /\ total_annual_benefits = R(1440) /\ platform_cost = 600 /\ services_cost = 500
    /\ implementation_delay_months = 0 /\ benefits_ramp_up_months = 0
    /\ scenario_results["Expected"].cash_flows[1].net_cash_flow = R(340)
    /\ scenario_results["Expected"].cash_flows[2].net_cash_flow = R(840)
    /\ scenario_results["Expected"].npv = Norm(121400, 121)

\* C14: a scenario's TCO is the undiscounted sum of platform and services costs over
\* the evaluation years, evaluation_years * platform_cost + services_cost, and its
\* ROI is NPV / TCO when the TCO is not 0 and 0 when the TCO is 0.
C14_ROIIsNPVOverTCO ==
    \A n \in DOMAIN scenario_results :
        LET r == scenario_results[n]
            tco == evaluation_years * platform_cost + services_cost
        IN  IF tco # 0 THEN RMul(r.roi, R(tco)) = r.npv ELSE r.roi = Zero

C14_Witness ==
    /\ pc = "payback_loop"
    /\ discount_rate = Norm(10, 100) /\ evaluation_years = 2
    /\ total_annual_benefits = R(1440) /\ platform_cost = 600 /\ services_cost = 500
    /\ implementation_delay_months = 0 /\ benefits_ramp_up_months = 0
    /\ scenario_results["Expected"].roi = Norm(1214, 2057)

\* The undiscounted sum of the net cash flows of the years 1..y
RunningNet(cfs, y) == RSum([i \in 1..y |-> cfs[i].net_cash_flow])

\* C15: a scenario's annual payback is the smallest year y in 1..evaluation_years
\* whose running sum of undiscounted net cash flows over the years 1..y is >= 0,
\* reported as "<y> years"; it is "N/A" exactly when that running sum is negative at
\* every year 1..evaluation_years.
C15_AnnualPaybackFirstYear ==
    \A n \in DOMAIN scenario_results :
        LET r == scenario_results[n]
            hits == {y \in 1..evaluation_years :
                        RLe(Zero, RunningNet(r.cash_flows, y))}
        IN  /\ hits # {} =>
                   r.payback =
                       ToString(CHOOSE y \in hits : \A k \in hits : y <= k) \o " years"
            /\ r.payback = "N/A" <=>
                   \A y \in 1..evaluation_years :
                       RLt(RunningNet(r.cash_flows, y), Zero)

C15_Witness ==
    /\ pc = "payback_loop"
    /\ evaluation_years = 3 /\ services_cost = 500 /\ platform_cost = 600
    /\ implementation_delay_months = 6 /\ benefits_ramp_up_months = 3
    /\ total_annual_benefits = R(1440)
    /\ scenario_results["Conservative"].payback = "3 years"
    /\ scenario_results["Expected"].payback = "2 years"
    /\ scenario_results["Expected"].cash_flows[1].net_cash_flow = R(-500)

\* C16: the monthly payback of a scenario starts the cumulative cash flow at
\* -services_cost, adds (annual_benefits/12) * factor(month) - platform_cost/12 for
\* month = 1, 2, ..., and is the smallest month in 1..evaluation_years*12 at which
\* the cumulative is >= 0, reported as "<month> months", or "N/A" if there is none;
\* a reported month never exceeds evaluation_years*12.
C16_MonthlyPaybackFirstMonth ==
    \A n \in DOMAIN scenario_results :
        "payback_months" \in DOMAIN scenario_results[n] =>
            LET label == scenario_results[n].payback_months
                horizon == evaluation_years * 12
                Cum(m) == Cumulative12(m, BenefitsOf(n), platform_cost, services_cost,
                                       DelayOf(n), benefits_ramp_up_months)
            IN  \/ /\ label = "N/A"
                   /\ \A m \in 1..horizon : RLt(Cum(m), Zero)
                \/ \E m \in 1..horizon :
                       /\ label = ToString(m) \o " months"
                       /\ RLe(Zero, Cum(m))
                       /\ \A k \in 0..(m - 1) : k > 0 => RLt(Cum(k), Zero)
                       /\ Cum(0) = R(-12 * services_cost)

\* two years: the Expected scenario breaks even in month 20, the Conservative one
\* is still at -356 after month 24
C16_Witness ==
    /\ pc = "monthly_chart"
    /\ evaluation_years = 2 /\ services_cost = 500 /\ platform_cost = 600
    /\ implementation_delay_months = 6 /\ benefits_ramp_up_months = 3
    /\ scenario_results["Expected"].payback_months = "20 months"
    /\ scenario_results["Conservative"].payback_months = "N/A"

\* C18: with the three fixed scenarios, shared costs, ramp-up, evaluation years and
\* discount rate, and base annual benefits > 0, NPV(Conservative) <= NPV(Expected)
\* <= NPV(Optimistic), for every base delay 0..24, ramp-up 0..12 and
\* evaluation_years 1..5, and for benefits 100000, platform cost 10000, services
\* cost 5000, delay 6, ramp-up 3, 3 years at 10%.
C18_ScenarioNPVOrdered ==
    (DOMAIN scenario_results = DOMAIN scenarios /\ RLt(Zero, total_annual_benefits)) =>
        /\ RLe(scenario_results["Conservative"].npv, scenario_results["Expected"].npv)
        /\ RLe(scenario_results["Expected"].npv, scenario_results["Optimistic"].npv)

C18_Witness ==
    /\ pc = "payback_loop"
    /\ total_annual_benefits = R(100000) /\ platform_cost = 10000
    /\ services_cost = 5000 /\ implementation_delay_months = 6
    /\ benefits_ramp_up_months = 3 /\ evaluation_years = 3
    /\ discount_rate = Norm(10, 100)
    /\ RLt(scenario_results["Conservative"].npv, scenario_results["Expected"].npv)
    /\ RLt(scenario_results["Expected"].npv, scenario_results["Optimistic"].npv)
    /\ RLt(R(166240), scenario_results["Expected"].npv)
    /\ RLt(scenario_results["Expected"].npv, R(166241))

----------------------------------------------------------------------------
(* Export and import of the configuration                                  *)
(*                                                                         *)
(* A text is a sequence of pieces.  A piece is one character ("7", ".",    *)
(* ",", a quote, a backslash, a blank, ...) or a run of characters that no *)
(* parser here looks inside: a word of letters and underscores such as     *)
(* "solution_name", or a single non-ASCII letter.  The pieces "e" and "E"  *)
(* are the letters themselves, as a numeral's exponent mark is one.        *)
(*                                                                         *)
(* A value of the session store is a str, an int or a float:               *)
(*   [type |-> "str", text |-> pieces]                                     *)
(*   [type |-> "int", value |-> n]                                         *)
(*   [type |-> "float", sig |-> s, exp |-> e]   standing for s * 10^e,     *)
(* s not a multiple of 10 unless the float is 0.0 = (0, 0).  These are the *)
(* floats with a short decimal form; Python's repr of a float is the       *)
(* shortest decimal that reads back as the same float, so on them repr and *)
(* float() are the decimal formatting and parsing written out below.       *)

Str(text) == [type |-> "str", text |-> text]
PyInt(n) == [type |-> "int", value |-> n]

\* the float s * 10^e, trailing zeros of s moved into the exponent
RECURSIVE PyFloat(_, _)
PyFloat(s, e) ==
    IF s = 0 THEN [type |-> "float", sig |-> 0, exp |-> 0]
    ELSE IF s % 10 = 0 THEN PyFloat(s \div 10, e + 1)
    ELSE [type |-> "float", sig |-> s, exp |-> e]

DigitPieces == <<"0", "1", "2", "3", "4", "5", "6", "7", "8", "9">>
IsDigit(c) == \E i \in DOMAIN DigitPieces : DigitPieces[i] = c
DigitValue(c) == (CHOOSE i \in DOMAIN DigitPieces : DigitPieces[i] = c) - 1
AllDigits(text) == text # <<>> /\ \A i \in DOMAIN text : IsDigit(text[i])

\* the number a run of digits writes
RECURSIVE DigitsValue(_)
DigitsValue(text) ==
    IF text = <<>> THEN 0
    ELSE 10 * DigitsValue(SubSeq(text, 1, Len(text) - 1)) + DigitValue(text[Len(text)])

RECURSIVE NatToText(_)
NatToText(n) ==
    IF n < 10 THEN <<DigitPieces[n + 1]>>
    ELSE Append(NatToText(n \div 10), DigitPieces[(n % 10) + 1])

\* str(n) of an int
IntToText(n) == IF n < 0 THEN <<"-">> \o NatToText(-n) ELSE NatToText(n)

RECURSIVE Zeros(_)
Zeros(n) == IF n <= 0 THEN <<>> ELSE <<"0">> \o Zeros(n - 1)

\* the digits of a float with the decimal point after the first decpt of them: with
\* a point in them where -4 < decpt <= 16, else in scientific notation, whose
\* mantissa has a point only when it has more than one digit
FloatDigitsToText(digits, n, decpt, e10) ==
    IF -4 < decpt /\ decpt <= 16
    THEN IF decpt <= 0 THEN <<"0", ".">> \o Zeros(-decpt) \o digits
         ELSE IF decpt >= n THEN digits \o Zeros(decpt - n) \o <<".", "0">>
         ELSE SubSeq(digits, 1, decpt) \o <<".">> \o SubSeq(digits, decpt + 1, n)
    ELSE <<digits[1]>>
         \o (IF n > 1 THEN <<".">> \o SubSeq(digits, 2, n) ELSE <<>>)
         \o <<"e", IF e10 < 0 THEN "-" ELSE "+">>
         \o (IF Abs(e10) < 10 THEN <<"0">> ELSE <<>>) \o NatToText(Abs(e10))

FloatSigToText(digits, exp) ==
    FloatDigitsToText(digits, Len(digits), Len(digits) + exp, Len(digits) + exp - 1)

\* str(x) and repr(x) of a float
FloatToText(x) ==
    (IF x.sig < 0 THEN <<"-">> ELSE <<>>) \o FloatSigToText(NatToText(Abs(x.sig)), x.exp)

\* str(value) of a value of the session store
ValueToText(v) ==
    CASE v.type = "str" -> v.text
      [] v.type = "int" -> IntToText(v.value)
      [] v.type = "float" -> FloatToText(v)

\* text.strip(), as int() and float() do to their argument first
RECURSIVE Strip(_)
Strip(text) ==
    IF text = <<>> THEN text
    ELSE IF Head(text) = " " THEN Strip(Tail(text))
    ELSE IF text[Len(text)] = " " THEN Strip(SubSeq(text, 1, Len(text) - 1))
    ELSE text

ValueError == [type |-> "ValueError"]

\* a numeral's sign and the rest of it
SignOf(text) == IF text # <<>> /\ Head(text) = "-" THEN -1 ELSE 1
Unsigned(text) == IF text # <<>> /\ Head(text) \in {"+", "-"} THEN Tail(text) ELSE text

\* int(text): blanks around, an optional sign, digits
IntValue(sign, digits) ==
    IF AllDigits(digits) THEN PyInt(sign * DigitsValue(digits)) ELSE ValueError

ParseInt(text) == IntValue(SignOf(Strip(text)), Unsigned(Strip(text)))

\* the index of the first piece of text that is in set, or 0
FirstIndex(text, set) ==
    IF \E i \in DOMAIN text : text[i] \in set
    THEN CHOOSE i \in DOMAIN text :
             text[i] \in set /\ \A j \in 1..(i - 1) : text[j] \notin set
    ELSE 0

\* the part of s before the first piece of marks, and the part after it, which is
\* none where s has no such piece
BeforeMark(s, marks) ==
    LET at == FirstIndex(s, marks) IN IF at = 0 THEN s ELSE SubSeq(s, 1, at - 1)
AfterMark(s, marks, none) ==
    LET at == FirstIndex(s, marks) IN IF at = 0 THEN none ELSE SubSeq(s, at + 1, Len(s))

DecimalValue(sign, whole, frac, exponent) ==
    IF /\ whole \o frac # <<>>
       /\ \A i \in DOMAIN whole : IsDigit(whole[i])
       /\ \A i \in DOMAIN frac : IsDigit(frac[i])
       /\ AllDigits(Unsigned(exponent))
    THEN PyFloat(sign * DigitsValue(whole \o frac),
                 SignOf(exponent) * DigitsValue(Unsigned(exponent)) - Len(frac))
    ELSE ValueError

MantissaValue(sign, mantissa, exponent) ==
    DecimalValue(sign, BeforeMark(mantissa, {"."}), AfterMark(mantissa, {"."}, <<>>),
                 exponent)

NumeralValue(sign, s) ==
    MantissaValue(sign, BeforeMark(s, {"e", "E"}), AfterMark(s, {"e", "E"}, <<"0">>))

\* float(text): blanks around, an optional sign, digits with at most one point and
\* a digit on at least one side of it, and an optional exponent of "e" or "E", an
\* optional sign and digits
ParseFloat(text) == NumeralValue(SignOf(Strip(text)), Unsigned(Strip(text)))

\* --- CSV, one line at a time (csv.writer and csv.reader, excel dialect) ---
\* A CSV file is the sequence of its lines; no field of the model holds a line break.

\* every quote doubled
RECURSIVE DoubleQuotes(_)
DoubleQuotes(text) ==
    IF text = <<>> THEN <<>>
    ELSE (IF Head(text) = "\"" THEN <<"\"", "\"">> ELSE <<Head(text)>>)
         \o DoubleQuotes(Tail(text))

\* a field as csv.writer writes it: quoted when it holds the delimiter or a quote
CsvField(text) ==
    IF \E i \in DOMAIN text : text[i] \in {",", "\""}
    THEN <<"\"">> \o DoubleQuotes(text) \o <<"\"">>
    ELSE text

\* writer.writerow(fields), without the line terminator
RECURSIVE CsvLine(_)
CsvLine(fields) ==
    IF Len(fields) = 1 THEN CsvField(fields[1])
    ELSE CsvField(Head(fields)) \o <<",">> \o CsvLine(Tail(fields))

\* csv.reader on one line, from piece i on: state is "start" (of a field), "field",
\* "quoted" or "quote" (a quote met inside a quoted field)
RECURSIVE CsvScan(_, _, _, _, _)
CsvScan(line, i, state, field, fields) ==
    IF i > Len(line) THEN Append(fields, field)
    ELSE LET c == line[i]
         IN  CASE state = "start" /\ c = "\"" -> CsvScan(line, i + 1, "quoted", field, fields)
               [] state = "quoted" /\ c = "\"" -> CsvScan(line, i + 1, "quote", field, fields)
               [] state = "quoted" /\ c # "\"" ->
                      CsvScan(line, i + 1, "quoted", Append(field, c), fields)
               [] state = "quote" /\ c = "\"" ->
                      CsvScan(line, i + 1, "quoted", Append(field, c), fields)
               [] state # "quoted" /\ c = "," ->
                      CsvScan(line, i + 1, "start", <<>>, Append(fields, field))
               [] OTHER -> CsvScan(line, i + 1, "field", Append(field, c), fields)

\* the fields of a line; a blank line has none
ParseCsvLine(line) == IF line = <<>> THEN <<>> ELSE CsvScan(line, 1, "start", <<>>, <<>>)

\* --- JSON scalars (json.dumps with ensure_ascii, json.loads) ---

\* the non-ASCII letters of the model and their \uXXXX escapes
Escapes == [c \in {"U+010D"} |-> <<"\\", "u", "0", "1", "0", "d">>]

RECURSIVE JsonEscape(_)
JsonEscape(text) ==
    IF text = <<>> THEN <<>>
    ELSE LET c == Head(text)
         IN  (CASE c = "\"" -> <<"\\", "\"">>
                [] c = "\\" -> <<"\\", "\\">>
                [] c \in DOMAIN Escapes -> Escapes[c]
                [] OTHER -> <<c>>) \o JsonEscape(Tail(text))

JsonString(text) == <<"\"">> \o JsonEscape(text) \o <<"\"">>

\* json.dumps of a str, an int or a float
JsonScalar(v) ==
    CASE v.type = "str" -> JsonString(v.text)
      [] v.type = "int" -> IntToText(v.value)
      [] v.type = "float" -> FloatToText(v)

JSONDecodeError == [type |-> "JSONDecodeError"]

\* the mark JsonUnescape leaves where the decoder would raise
InvalidEscape == "(invalid escape)"

\* the characters between the quotes of a JSON string, unescaped
RECURSIVE JsonUnescape(_)
JsonUnescape(body) ==
    IF body = <<>> THEN <<>>
    ELSE IF Head(body) = "\"" THEN <<InvalidEscape>>
    ELSE IF Head(body) # "\\" THEN <<Head(body)>> \o JsonUnescape(Tail(body))
    ELSE IF Len(body) >= 2 /\ body[2] \in {"\"", "\\"}
         THEN <<body[2]>> \o JsonUnescape(SubSeq(body, 3, Len(body)))
    ELSE IF Len(body) >= 6
            /\ \E c \in DOMAIN Escapes : Escapes[c] = SubSeq(body, 1, 6)
         THEN <<CHOOSE c \in DOMAIN Escapes : Escapes[c] = SubSeq(body, 1, 6)>>
              \o JsonUnescape(SubSeq(body, 7, Len(body)))
    ELSE <<InvalidEscape>>

JsonDecimal(whole, frac, exponent) ==
    /\ AllDigits(whole) /\ (Len(whole) > 1 => whole[1] # "0")
    /\ AllDigits(frac)
    /\ AllDigits(Unsigned(exponent))

JsonMantissa(mantissa, exponent) ==
    JsonDecimal(BeforeMark(mantissa, {"."}), AfterMark(mantissa, {"."}, <<"0">>),
                exponent)

JsonUnsignedNumeral(s) ==
    JsonMantissa(BeforeMark(s, {"e", "E"}), AfterMark(s, {"e", "E"}, <<"0">>))

\* a JSON numeral: -?(0|[1-9]digits)(.digits)?([eE][-+]?digits)?
JsonNumeral(text) ==
    JsonUnsignedNumeral(IF text # <<>> /\ Head(text) = "-" THEN Tail(text) ELSE text)

JsonStringValue(body) ==
    IF \E i \in DOMAIN body : body[i] = InvalidEscape THEN JSONDecodeError
    ELSE Str(body)

\* json.loads of a scalar: a string between quotes, or a numeral, which is a float
\* when it has a fraction or an exponent and an int otherwise
JsonLoadScalar(text) ==
    IF Len(text) >= 2 /\ Head(text) = "\"" /\ text[Len(text)] = "\""
    THEN JsonStringValue(JsonUnescape(SubSeq(text, 2, Len(text) - 1)))
    ELSE IF JsonNumeral(text)
         THEN IF \E i \in DOMAIN text : text[i] \in {".", "e", "E"}
              THEN ParseFloat(text) ELSE ParseInt(text)
    ELSE JSONDecodeError

\* --- the functions of lines 222-431 ---

\* a key or a word as a text
Word(w) == <<w>>

\* Of the 39 keys of lines 227-255 the model keeps one or two of each type of value:
\* two strs, an int and two floats
input_keys ==
    <<Word("solution_name"), Word("currency"), Word("hours_per_day"),
      Word("alert_volume"), Word("avg_mttr_hours")>>

\* lines 269-309, for the keys kept
get_default_value(key) ==
    CASE key = Word("solution_name") -> Str(<<"AIOPs">>)
      [] key = Word("currency") -> Str(<<"$">>)
      [] key = Word("hours_per_day") -> PyFloat(8, 0)
      [] key = Word("alert_volume") -> PyInt(0)
      [] key = Word("avg_mttr_hours") -> PyFloat(0, 0)
      [] OTHER -> PyInt(0)

\* the dict a list of <<key, value>> pairs builds: a later pair replaces an earlier
\* one with the same key
DictOf(pairs) ==
    [k \in {pairs[i][1] : i \in DOMAIN pairs} |->
        pairs[CHOOSE i \in DOMAIN pairs :
                  pairs[i][1] = k /\ \A j \in DOMAIN pairs : pairs[j][1] = k => j <= i][2]]

\* lines 222-267: the value of every key, from the session store or else the default
get_all_input_values ==
    [k \in {input_keys[i] : i \in DOMAIN input_keys} |->
        IF k \in DOMAIN session_state THEN session_state[k] ELSE get_default_value(k)]

\* the order in which a loop over input_values visits its keys
ItemsOrder(input_values) == SelectSeq(input_keys, LAMBDA k : k \in DOMAIN input_values)

\* lines 320-356, for the keys kept
descriptions ==
    DictOf(<< <<Word("solution_name"), <<"Solution", " ", "Name">> >>,
              <<Word("currency"), <<"Currency", " ", "Symbol">> >>,
              <<Word("hours_per_day"),
                <<"Working", " ", "Hours", " ", "per", " ", "Day">> >>,
              <<Word("alert_volume"),
                <<"Total", " ", "Infrastructure", " ", "Related", " ", "Alerts", " ",
                  "per", " ", "Year">> >>,
              <<Word("avg_mttr_hours"),
                <<"Average", " ", "MTTR", " ", "(", "hours", ")">> >> >>)

\* lines 311-364: the header line and one line per key
export_to_csv(input_values) ==
    LET keys == ItemsOrder(input_values)
    IN  <<CsvLine(<<Word("Parameter"), Word("Value"), Word("Description")>>)>>
        \o [i \in DOMAIN keys |->
               CsvLine(<<keys[i], ValueToText(input_values[keys[i]]),
                         descriptions[keys[i]]>>)]

NumberOrText(number, value) == IF number = ValueError THEN Str(value) ELSE number

\* lines 378-386: float() for a cell with a point in it, int() for any other, and
\* the cell itself where that raises
CoerceCsvValue(value) ==
    NumberOrText(IF \E i \in DOMAIN value : value[i] = "." THEN ParseFloat(value)
                 ELSE ParseInt(value),
                 value)

\* row[name] of the dict csv.DictReader makes of a row: the cell under the last
\* field name equal to name, None (here the text of str(None)) where the row is
\* too short
CsvCell(fieldnames, row, name) ==
    LET at == CHOOSE i \in DOMAIN fieldnames :
                  fieldnames[i] = name
                  /\ \A j \in DOMAIN fieldnames : fieldnames[j] = name => j <= i
    IN  IF at <= Len(row) THEN row[at] ELSE Word("None")

\* the rows csv.DictReader yields for the lines after the header: blank lines are
\* skipped
CsvRows(lines) ==
    LET kept == SelectSeq(lines, LAMBDA line : line # <<>>)
    IN  [i \in DOMAIN kept |-> ParseCsvLine(kept[i])]

\* Mutant of Imported (used to test the claims): the message counts the keys of the
\* session store after the update
imported_counts_the_store(imported_values) ==
    [success |-> TRUE,
     message |-> "Successfully imported "
                 \o ToString(Cardinality(DOMAIN (imported_values @@ session_state)))
                 \o " parameters",
     session |-> imported_values @@ session_state]

\* Mutant of ImportJsonValues (used to test the claims): a configuration that is no
\* mapping fails after the store was emptied
import_json_clears_store_first(imported_values) ==
    IF imported_values.type # "dict"
    THEN [success |-> FALSE, message |-> "Error importing JSON: AttributeError",
          session |-> <<>>]
    ELSE [success |-> TRUE,
          message |-> "Successfully imported "
                      \o ToString(Cardinality(DOMAIN imported_values.items))
                      \o " parameters",
          session |-> imported_values.items @@ session_state]

\* lines 390-394 and 424-428: the session store updated, and the message
Imported(imported_values) ==
    [success |-> TRUE,
     message |-> "Successfully imported " \o ToString(Cardinality(DOMAIN imported_values))
                 \o " parameters",
     session |-> imported_values @@ session_state]

\* lines 396-397 and 430-431: the exception caught; message ends in str(e), which
\* for the errors of the JSON import is stood for by the name of the exception
ImportFailed(message) ==
    [success |-> FALSE, message |-> message, session |-> session_state]

\* lines 373-388
ImportCsvRows(fieldnames, rows) ==
    IF rows = <<>> THEN Imported(<<>>)
    ELSE IF \A i \in DOMAIN fieldnames : fieldnames[i] # Word("Parameter")
    THEN ImportFailed("Error importing CSV: 'Parameter'")
    ELSE IF \A i \in DOMAIN fieldnames : fieldnames[i] # Word("Value")
    THEN ImportFailed("Error importing CSV: 'Value'")
    ELSE Imported(DictOf([i \in DOMAIN rows |->
                     <<CsvCell(fieldnames, rows[i], Word("Parameter")),
                       CoerceCsvValue(CsvCell(fieldnames, rows[i], Word("Value")))>>]))

\* lines 366-397; session is st.session_state after the call
import_from_csv(csv_content) ==
    IF csv_content = <<>> THEN Imported(<<>>)
    ELSE ImportCsvRows(ParseCsvLine(csv_content[1]), CsvRows(Tail(csv_content)))

\* --- JSON documents ---
\* A JSON object is the sequence of its members, in order; a member holds its key as
\* JSON text and its value as JSON text (a scalar) or as the members of a nested
\* object.  The braces, colons, commas and the indentation are not written out.

ScalarMember(key, v) ==
    [key |-> JsonString(key), is_object |-> FALSE, scalar |-> JsonScalar(v),
     object |-> <<>>]
ObjectMember(key, members) ==
    [key |-> JsonString(key), is_object |-> TRUE, scalar |-> <<>>, object |-> members]

\* Mutant of export_to_json (used to test the claims): every value written as a
\* JSON string of its str()
export_to_json_values_as_strings(input_values, now) ==
    LET keys == ItemsOrder(input_values)
    IN  <<ObjectMember(Word("metadata"),
              <<ScalarMember(Word("export_date"), Str(now)),
                ScalarMember(Word("version"), Str(<<"1", ".", "7">>)),
                ScalarMember(Word("tool"),
                    Str(<<"BVA", " ", "Business", " ", "Value", " ", "Assessment">>))>>),
          ObjectMember(Word("configuration"),
              [i \in DOMAIN keys |->
                  ScalarMember(keys[i], Str(ValueToText(input_values[keys[i]])))])>>

\* lines 399-410; now is the text of datetime.now().isoformat()
export_to_json(input_values, now) ==
    LET keys == ItemsOrder(input_values)
    IN  <<ObjectMember(Word("metadata"),
              <<ScalarMember(Word("export_date"), Str(now)),
                ScalarMember(Word("version"), Str(<<"1", ".", "7">>)),
                ScalarMember(Word("tool"),
                    Str(<<"BVA", " ", "Business", " ", "Value", " ", "Assessment">>))>>),
          ObjectMember(Word("configuration"),
              [i \in DOMAIN keys |-> ScalarMember(keys[i], input_values[keys[i]])])>>

JsonDict(pairs) ==
    IF \E i \in DOMAIN pairs : pairs[i][1].type # "str" \/ pairs[i][2] = JSONDecodeError
    THEN JSONDecodeError
    ELSE [type |-> "dict",
          items |-> DictOf([i \in DOMAIN pairs |-> <<pairs[i][1].text, pairs[i][2]>>])]

\* json.loads of an object: a dict of its members' values, or JSONDecodeError
RECURSIVE JsonLoadObject(_)
JsonLoadObject(members) ==
    JsonDict([i \in DOMAIN members |->
                 <<JsonLoadScalar(members[i].key),
                   IF members[i].is_object THEN JsonLoadObject(members[i].object)
                   ELSE JsonLoadScalar(members[i].scalar)>>])

\* lines 424-428, and the AttributeError of .items() on a value that is no dict
ImportJsonValues(imported_values) ==
    IF imported_values.type # "dict"
    THEN ImportFailed("Error importing JSON: AttributeError")
    ELSE Imported(imported_values.items)

\* lines 417-422
ImportJsonData(data) ==
    IF data = JSONDecodeError THEN ImportFailed("Error importing JSON: JSONDecodeError")
    ELSE ImportJsonValues(IF Word("configuration") \in DOMAIN data.items
                          THEN data.items[Word("configuration")] ELSE data)

\* lines 412-431; session is st.session_state after the call
import_from_json(json_content) == ImportJsonData(JsonLoadObject(json_content))

\* --- the sidebar section of lines 433-497, for drawn session stores and files ---

SolutionNames ==
    {<<"AIOPs">>, <<"2", "0", "2", "4">>, <<"v", "1", ".", "5">>,
     <<"Acme", ",", " ", "\"", "A", "\"">>}
Currencies == {<<"$">>, <<"K", "U+010D">>}
HoursPerDay == {PyFloat(8, 0), PyFloat(75, -1)}
AlertVolumes == {0, 4512, -3}
MttrHours == {PyFloat(0, 0), PyFloat(25, -1), PyFloat(1, -5)}

\* the session store once the widgets have run
SessionStores ==
    {DictOf(<< <<Word("solution_name"), Str(n)>>, <<Word("currency"), Str(c)>>,
               <<Word("hours_per_day"), h>>, <<Word("alert_volume"), PyInt(a)>>,
               <<Word("avg_mttr_hours"), m>> >>) :
        n \in SolutionNames, c \in Currencies, h \in HoursPerDay,
        a \in AlertVolumes, m \in MttrHours}

\* the texts datetime.now().isoformat() gives at two moments
ExportDates ==
    {<<"2", "0", "2", "5", "-", "0", "1", "-", "0", "2", "T", "0", "3", ":", "0", "4",
       ":", "0", "5">>,
     <<"2", "0", "2", "5", "-", "0", "1", "-", "0", "2", "T", "0", "3", ":", "0", "4",
       ":", "0", "6", ".", "5">>}

\* files written by hand
HandWrittenFiles ==
    {[extension |-> "csv",
      content |-> <<<<"Parameter", ",", "Value", ",", "Description">>,
                    <<"alert_volume", ",", " ", "1", "2", ",", "x">>,
                    <<>>,
                    <<"avg_mttr_hours", ",", "1", "e", "5">>,
                    <<"solution_name", ",", "1", ".", "2", ".", "3">>,
                    <<"hours_per_day", ",", "7", ".">>,
                    <<"currency">> >>],
     [extension |-> "csv",
      content |-> <<<<"Name", ",", "Value">>, <<"alert_volume", ",", "1", "2">> >>],
     [extension |-> "csv",
      content |-> <<<<"Parameter">>, <<"alert_volume">> >>],
     [extension |-> "csv",
      content |-> <<<<"Parameter", ",", "Value">>,
                    <<"alert_volume", ",", "1">>,
                    <<"hours_per_day">>,
                    <<"alert_volume", ",", "2">> >>],
     [extension |-> "json",
      content |-> <<[key |-> <<"\"", "configuration", "\"">>, is_object |-> FALSE,
                     scalar |-> <<"5">>, object |-> <<>>]>>],
     [extension |-> "json",
      content |-> <<[key |-> <<"\"", "alert_volume", "\"">>, is_object |-> FALSE,
                     scalar |-> <<"1", "2">>, object |-> <<>>],
                    [key |-> <<"\"", "avg_mttr_hours", "\"">>, is_object |-> FALSE,
                     scalar |-> <<"1", "e", "-", "0", "5">>, object |-> <<>>]>>],
     [extension |-> "json",
      content |-> <<[key |-> <<"\"", "alert_volume", "\"">>, is_object |-> FALSE,
                     scalar |-> <<"0", "7">>, object |-> <<>>]>>]}

IoInit ==
    /\ pc = "sidebar"
    /\ session_state \in {<<>>} \cup SessionStores
    /\ export_data = <<>>
    /\ import_result = <<>>
    /\ FloatIdle
    /\ SideIdle
    /\ CostIdle
    /\ FactorIdle
    /\ BaselineIdle
    /\ ScenarioIdle

\* lines 442-462: the button "Generate Export File"; current_values is kept beside
\* the file for the claims
GenerateExportFile ==
    /\ pc = "sidebar"
    /\ \E export_format \in {"CSV", "JSON"}, now \in ExportDates :
           LET current_values == get_all_input_values
           IN  export_data' =
                   IF export_format = "CSV"
                   THEN [extension |-> "csv", content |-> export_to_csv(current_values),
                         current_values |-> current_values]
                   ELSE [extension |-> "json",
                         content |-> export_to_json(current_values, now),
                         current_values |-> current_values]
    /\ pc' = "exported"
    /\ UNCHANGED <<session_state, import_result>>
    /\ UNCHANGED <<factorVars, costVars, baselineVars, scenarioVars, floatVars, sideVars>>

\* the file is kept and the application opened anew: the session store is empty
NewSession ==
    /\ pc = "exported"
    /\ session_state # <<>>
    /\ session_state' = <<>>
    /\ UNCHANGED <<pc, export_data, import_result>>
    /\ UNCHANGED <<factorVars, costVars, baselineVars, scenarioVars, floatVars, sideVars>>

\* the files that can be uploaded: the one generated, or one written by hand
UploadedFiles ==
    IF export_data # <<>>
    THEN {[extension |-> export_data.extension, content |-> export_data.content]}
    ELSE HandWrittenFiles

\* lines 473-487: the button "Import Configuration"; the file is kept beside the
\* result for the claims
StoreImport(uploaded_file, result) ==
    /\ session_state' = result.session
    /\ import_result' = [success |-> result.success, message |-> result.message,
                         uploaded_file |-> uploaded_file]

ImportConfiguration ==
    /\ pc \in {"sidebar", "exported"}
    /\ \E uploaded_file \in UploadedFiles :
           StoreImport(uploaded_file,
                       IF uploaded_file.extension = "csv"
                       THEN import_from_csv(uploaded_file.content)
                       ELSE import_from_json(uploaded_file.content))
    /\ pc' = "imported"
    /\ UNCHANGED export_data
    /\ UNCHANGED <<factorVars, costVars, baselineVars, scenarioVars, floatVars, sideVars>>

IoNext == GenerateExportFile \/ NewSession \/ ImportConfiguration

SpecIo == IoInit /\ [][IoNext]_vars

----------------------------------------------------------------------------
(* Claims about export and import *)

\* the file imported is the file generated, of the given extension
ImportedTheExport(extension) ==
    /\ pc = "imported"
    /\ export_data # <<>>
    /\ export_data.extension = extension

\* C19: importing the JSON file that export_to_json made of the mapping of
\* get_all_input_values succeeds and leaves the session store with exactly the keys
\* of the mapping, each with the value it had in the mapping; the keys of the
\* export's metadata are not stored.
C19_JsonRoundTrip ==
    ImportedTheExport("json") =>
        /\ import_result.success
        /\ DOMAIN session_state = DOMAIN export_data.current_values
        /\ \A k \in DOMAIN session_state :
               session_state[k] = export_data.current_values[k]
        /\ \A k \in {"metadata", "configuration", "export_date", "version", "tool"} :
               Word(k) \notin DOMAIN session_state

C19_Witness ==
    /\ ImportedTheExport("json")
    /\ import_result.success
    /\ import_result.message = "Successfully imported 5 parameters"
    /\ session_state[Word("solution_name")] = Str(<<"Acme", ",", " ", "\"", "A", "\"">>)
    /\ session_state[Word("currency")] = Str(<<"K", "U+010D">>)
    /\ session_state[Word("hours_per_day")] = PyFloat(75, -1)
    /\ session_state[Word("alert_volume")] = PyInt(-3)
    /\ session_state[Word("avg_mttr_hours")] = PyFloat(1, -5)

\* a cell that reads as a number: float() accepts it
LooksNumeric(value) == ParseFloat(value) # ValueError

\* the type the cell is said to be stored with
StatedCellType(value) ==
    IF ~LooksNumeric(value) THEN "str"
    ELSE IF \E i \in DOMAIN value : value[i] = "." THEN "float"
    ELSE "int"

\* every row of the file is stored under its Parameter cell as stated of its Value
\* cell
RowsStoredAsStated(fieldnames, rows) ==
    \A i \in DOMAIN rows :
        LET key == CsvCell(fieldnames, rows[i], Word("Parameter"))
            value == CsvCell(fieldnames, rows[i], Word("Value"))
        IN  /\ key \in DOMAIN session_state
            /\ session_state[key].type = StatedCellType(value)
            /\ session_state[key].type = "str" => session_state[key] = Str(value)

\* C20: after a CSV import every Value cell that reads as a number is stored as an
\* int when it has no decimal point and as a float when it has one, every other
\* cell is stored unchanged as a str; and after the import of a file made by
\* export_to_csv every int and float of the exported mapping is stored as the equal
\* number and every str that does not read as a number as the same str.
C20_CsvNumbersStoredAsNumbers ==
    /\ (pc = "imported" /\ import_result.uploaded_file.extension = "csv"
            /\ import_result.success) =>
           RowsStoredAsStated(ParseCsvLine(import_result.uploaded_file.content[1]),
                              CsvRows(Tail(import_result.uploaded_file.content)))
    /\ ImportedTheExport("csv") =>
           \A k \in DOMAIN export_data.current_values :
               LET v == export_data.current_values[k]
               IN  (v.type \in {"int", "float"} \/ ~LooksNumeric(v.text)) =>
                       /\ k \in DOMAIN session_state
                       /\ session_state[k] = v

----------------------------------------------------------------------------
(* Binary64 arithmetic *)

\* Python's float is the IEEE 754 binary64 format and each of +, -, *, / returns
\* the representable value nearest the exact result, ties to the even significand.
\* A significand has 53 bits, more than an integer of the checker holds, so naturals
\* of any size are kept as sequences of limbs, least significant first, with no
\* zero limb on top; <<>> is zero.
Limb == 32768
LimbBits == 15
SignificandBits == 53

RECURSIVE BigTrim(_)
BigTrim(a) ==
    IF a = <<>> THEN a
    ELSE IF a[Len(a)] = 0 THEN BigTrim(SubSeq(a, 1, Len(a) - 1))
    ELSE a

RECURSIVE BigFromNat(_)
BigFromNat(n) == IF n = 0 THEN <<>> ELSE <<n % Limb>> \o BigFromNat(n \div Limb)

LimbAt(a, i) == IF i <= Len(a) THEN a[i] ELSE 0

RECURSIVE BigAddFrom(_, _, _, _)
BigAddFrom(a, b, i, carry) ==
    IF i > Len(a) /\ i > Len(b) THEN (IF carry = 0 THEN <<>> ELSE <<carry>>)
    ELSE <<(LimbAt(a, i) + LimbAt(b, i) + carry) % Limb>>
         \o BigAddFrom(a, b, i + 1, (LimbAt(a, i) + LimbAt(b, i) + carry) \div Limb)

BigAdd(a, b) == BigAddFrom(a, b, 1, 0)

\* a - b where a >= b
RECURSIVE BigSubFrom(_, _, _, _)
BigSubFrom(a, b, i, borrow) ==
    IF i > Len(a) THEN <<>>
    ELSE <<(LimbAt(a, i) - LimbAt(b, i) - borrow + Limb) % Limb>>
         \o BigSubFrom(a, b, i + 1, IF LimbAt(a, i) - LimbAt(b, i) - borrow < 0 THEN 1 ELSE 0)

BigSub(a, b) == BigTrim(BigSubFrom(a, b, 1, 0))

\* -1, 0 or 1 as a is below, equal to or above b
RECURSIVE BigCmpAt(_, _, _)
BigCmpAt(a, b, i) ==
    IF i = 0 THEN 0
    ELSE IF a[i] # b[i] THEN (IF a[i] < b[i] THEN -1 ELSE 1)
    ELSE BigCmpAt(a, b, i - 1)

BigCmp(a, b) ==
    IF Len(a) # Len(b) THEN (IF Len(a) < Len(b) THEN -1 ELSE 1)
    ELSE BigCmpAt(a, b, Len(a))

\* a * n for 0 <= n <= Limb
RECURSIVE BigMulSmallFrom(_, _, _, _)
BigMulSmallFrom(a, n, i, carry) ==
    IF i > Len(a) THEN (IF carry = 0 THEN <<>> ELSE <<carry>>)
    ELSE <<(a[i] * n + carry) % Limb>>
         \o BigMulSmallFrom(a, n, i + 1, (a[i] * n + carry) \div Limb)

BigMulSmall(a, n) == BigTrim(BigMulSmallFrom(a, n, 1, 0))

RECURSIVE BigMulFrom(_, _, _)
BigMulFrom(a, b, j) ==
    IF j > Len(b) THEN <<>>
    ELSE BigAdd(BigMulSmall(a, b[j]), <<0>> \o BigMulFrom(a, b, j + 1))

BigMul(a, b) == BigTrim(BigMulFrom(a, b, 1))

\* quotient and remainder of a by n, 0 < n <= Limb, from the top limb down
RECURSIVE BigQuotFrom(_, _, _, _)
BigQuotFrom(a, n, i, rem) ==
    IF i = 0 THEN <<>>
    ELSE BigQuotFrom(a, n, i - 1, (rem * Limb + a[i]) % n) \o <<(rem * Limb + a[i]) \div n>>

BigQuot(a, n) == BigTrim(BigQuotFrom(a, n, Len(a), 0))

RECURSIVE BigRemFrom(_, _, _, _)
BigRemFrom(a, n, i, rem) ==
    IF i = 0 THEN rem ELSE BigRemFrom(a, n, i - 1, (rem * Limb + a[i]) % n)

BigRem(a, n) == BigRemFrom(a, n, Len(a), 0)

\* a * 2^k and a \div 2^k
BigShiftLeft(a, k) ==
    IF a = <<>> THEN <<>>
    ELSE [i \in 1..(k \div LimbBits) |-> 0] \o BigMulSmall(a, 2^(k % LimbBits))

BigShiftRight(a, k) ==
    IF k \div LimbBits >= Len(a) THEN <<>>
    ELSE BigQuot(SubSeq(a, k \div LimbBits + 1, Len(a)), 2^(k % LimbBits))

RECURSIVE BitLength(_)
BitLength(n) == IF n = 0 THEN 0 ELSE 1 + BitLength(n \div 2)

BigBitLength(a) ==
    IF a = <<>> THEN 0 ELSE LimbBits * (Len(a) - 1) + BitLength(a[Len(a)])

\* A float is zero or (-1)^neg * man * 2^exp with man of exactly 53 bits.  The
\* values of the script stay far from the ends of the exponent range, so overflow,
\* subnormals, infinities and NaN are left out.
FZero == [neg |-> FALSE, man |-> <<>>, exp |-> 0]

Float(neg, man, exp) == [neg |-> neg, man |-> man, exp |-> exp]

\* the significand after rounding up, renormalised where it reached 2^53
FCarry(neg, man, exp) ==
    IF BigBitLength(man) > SignificandBits
    THEN Float(neg, BigShiftRight(man, 1), exp + 1)
    ELSE Float(neg, man, exp)

\* quot is the top 53 bits, half_cmp compares the bits cut off with half a unit of
\* quot's last place, sticky says the exact value lies above what the bits show
FRoundCut(neg, quot, half_cmp, exp, sticky) ==
    IF half_cmp > 0 \/ (half_cmp = 0 /\ (sticky \/ quot[1] % 2 = 1))
    THEN FCarry(neg, BigAdd(quot, <<1>>), exp)
    ELSE Float(neg, quot, exp)

FRoundBits(neg, m, exp, sticky, bits) ==
    IF bits <= SignificandBits
    THEN Float(neg, BigShiftLeft(m, SignificandBits - bits), exp - (SignificandBits - bits))
    ELSE FRoundCut(neg, BigShiftRight(m, bits - SignificandBits),
                   BigCmp(BigSub(m, BigShiftLeft(BigShiftRight(m, bits - SignificandBits),
                                                 bits - SignificandBits)),
                          BigShiftLeft(<<1>>, bits - SignificandBits - 1)),
                   exp + (bits - SignificandBits), sticky)

\* the float nearest (-1)^neg * m * 2^exp (a little above m where sticky), ties to even
FRound(neg, m, exp, sticky) ==
    IF m = <<>> THEN FZero ELSE FRoundBits(neg, m, exp, sticky, BigBitLength(m))

\* float(n) of an int n
FromInt(n) == FRound(n < 0, BigFromNat(IF n < 0 THEN -n ELSE n), 0, FALSE)

FNeg(x) == IF x.man = <<>> THEN x ELSE Float(~x.neg, x.man, x.exp)

FMul(x, y) ==
    IF x.man = <<>> \/ y.man = <<>> THEN FZero
    ELSE FRound(x.neg # y.neg, BigMul(x.man, y.man), x.exp + y.exp, FALSE)

\* x / n for an int n, 0 < n <= Limb: every division of the script divides by an
\* int (ramp_up_months, 12, the length of a list)
GuardBits == 60
FDivInt(x, n) ==
    IF x.man = <<>> THEN FZero
    ELSE FRound(x.neg, BigQuot(BigShiftLeft(x.man, GuardBits), n), x.exp - GuardBits,
                BigRem(BigShiftLeft(x.man, GuardBits), n) # 0)

\* mx and my are the significands brought to the common exponent exp
FAddAligned(x, y, mx, my, exp) ==
    IF x.neg = y.neg THEN FRound(x.neg, BigAdd(mx, my), exp, FALSE)
    ELSE IF BigCmp(mx, my) = 0 THEN FZero
    ELSE IF BigCmp(mx, my) > 0 THEN FRound(x.neg, BigSub(mx, my), exp, FALSE)
    ELSE FRound(y.neg, BigSub(my, mx), exp, FALSE)

FAdd(x, y) ==
    IF x.man = <<>> THEN y
    ELSE IF y.man = <<>> THEN x
    ELSE IF x.exp >= y.exp
    THEN FAddAligned(x, y, BigShiftLeft(x.man, x.exp - y.exp), y.man, y.exp)
    ELSE FAddAligned(x, y, x.man, BigShiftLeft(y.man, y.exp - x.exp), x.exp)

FSub(x, y) == FAdd(x, FNeg(y))

\* x >= 0
FNonNegative(x) == x.man = <<>> \/ ~x.neg

----------------------------------------------------------------------------
(* The payback figures in binary64 *)

\* The two payback figures compare a running sum with zero, and the sums of the
\* script are sums of floats.  This part evaluates lines 892-937 and 1011-1051 with
\* the rounding of each operation; net present value and ROI play no part in the
\* payback figures and are left to the exact part above.

\* float(q) of a rational written as a literal (0.7) or held exactly (720)
FromRational(q) == FDivInt(FromInt(q[1]), q[2])

RECURSIVE BigToNat(_)
BigToNat(a) == IF a = <<>> THEN 0 ELSE a[1] + Limb * BigToNat(Tail(a))

\* int(x) of a float below 2^31 in magnitude: the fraction bits are dropped
FloatToInt(x) ==
    IF x.man = <<>> THEN 0
    ELSE IF x.neg THEN -BigToNat(BigShiftRight(x.man, -x.exp))
    ELSE BigToNat(BigShiftRight(x.man, -x.exp))

\* lines 881-890; months_since_golive / ramp_up_months divides two ints
calculate_benefit_realization_factor_float(month, arg_delay_months, ramp_up_months) ==
    IF month <= arg_delay_months THEN FZero
    ELSE IF month <= arg_delay_months + ramp_up_months
    THEN FDivInt(FromInt(month - arg_delay_months), ramp_up_months)
    ELSE FromInt(1)

\* lines 904-907: the factors of the twelve months of a year
MonthlyFactors(year, scenario_impl_delay, scenario_ramp_up) ==
    [i \in 1..12 |-> calculate_benefit_realization_factor_float(
                         (year - 1) * 12 + i, scenario_impl_delay, scenario_ramp_up)]

\* the running total acc is a float before the next item is added to it
RECURSIVE SumFrom(_, _, _)
SumFrom(a, i, acc) ==
    IF acc.neg \in BOOLEAN /\ i <= Len(a) THEN SumFrom(a, i + 1, FAdd(acc, a[i]))
    ELSE acc

\* line 909: numpy adds the twelve values in an order the build chooses; one after
\* the other, or the first eight in pairs and the rest one after the other
SumOrders == {"sequential", "pairwise"}

NumpySum(a, sum_order) ==
    IF sum_order = "sequential" THEN SumFrom(a, 2, a[1])
    ELSE SumFrom(a, 9, FAdd(FAdd(FAdd(a[1], a[2]), FAdd(a[3], a[4])),
                            FAdd(FAdd(a[5], a[6]), FAdd(a[7], a[8]))))

NumpyMean(a, sum_order) == FDivInt(NumpySum(a, sum_order), Len(a))

\* lines 910-914: year_net_cash_flow of one year
YearNetCashFlowFloat(year, scenario_benefits, scenario_impl_delay, sum_order) ==
    FSub(FSub(FMul(scenario_benefits,
                   NumpyMean(MonthlyFactors(year, scenario_impl_delay,
                                            benefits_ramp_up_months), sum_order)),
              FromInt(platform_cost)),
         FromInt(IF year = 1 THEN services_cost ELSE 0))

\* lines 895 and 1043: total_annual_benefits * benefits_multiplier
ScenarioBenefitsFloat(scenario_name) ==
    FMul(FromRational(total_annual_benefits),
         FromRational(scenarios[scenario_name].benefits_multiplier))

\* lines 896 and 1044: max(0, int(implementation_delay_months * multiplier))
ScenarioImplDelayFloat(scenario_name) ==
    Max(0, FloatToInt(FMul(FromInt(implementation_delay_months),
                           FromRational(scenarios[scenario_name]
                                            .implementation_delay_multiplier))))

\* lines 1026-1030: monthly_net_cash_flow of one month
MonthlyNetCashFlowFloat(month, annual_benefits, arg_delay_months) ==
    FSub(FMul(FDivInt(annual_benefits, 12),
              calculate_benefit_realization_factor_float(month, arg_delay_months,
                                                         benefits_ramp_up_months)),
         FDivInt(FromInt(platform_cost), 12))

\* Inputs on which a running sum comes to zero, or close to it, at the end of a
\* year, beside inputs on which it does not
FloatBenefits == {720, 1440, 3384}
FloatPlatformCosts == {0, 1500}
FloatServicesCosts == {100, 333}
FloatTimelines == {<<8, 6>>, <<0, 12>>, <<6, 3>>}
FloatYears == {1, 2}

\* the locals of the scenario in hand
FloatScenario(sum_order, results, at, position, cumulative) ==
    [sum_order |-> sum_order, results |-> results, at |-> at,
     scenario_cash_flows |-> <<>>, position |-> position, cumulative |-> cumulative]

FloatInit ==
    /\ pc = "float_cash_flows"
    /\ \E b \in FloatBenefits : total_annual_benefits = R(b)
    /\ platform_cost \in FloatPlatformCosts
    /\ services_cost \in FloatServicesCosts
    /\ \E t \in FloatTimelines :
           implementation_delay_months = t[1] /\ benefits_ramp_up_months = t[2]
    /\ evaluation_years \in FloatYears
    /\ discount_rate = Zero
    /\ scenario_results = <<>> /\ expected_monthly_cf_df = <<>>
    /\ inputs = <<>> /\ costs = <<>> /\ savings = <<>>
    /\ \E sum_order \in SumOrders :
           float_run = FloatScenario(sum_order, <<>>, 1, 1, FZero)
    /\ CostIdle
    /\ FactorIdle
    /\ IoIdle
    /\ SideIdle

\* lines 899-923 for the scenario in hand: the net cash flow of each year
FloatCashFlows ==
    /\ pc = "float_cash_flows"
    /\ float_run' =
           [float_run EXCEPT
               !.scenario_cash_flows =
                   [year \in 1..evaluation_years |->
                       YearNetCashFlowFloat(year, ScenarioBenefitsFloat(ScenarioOrder[float_run.at]),
                                            ScenarioImplDelayFloat(ScenarioOrder[float_run.at]),
                                            float_run.sum_order)],
               !.position = 1,
               !.cumulative = FZero]
    /\ pc' = "float_payback"
    /\ UNCHANGED <<factorVars, costVars, baselineVars, scenarioVars, ioVars, sideVars>>

\* the scenario in hand returns payback (lines 939-947) and the next one starts;
\* after the last, the loop of lines 1038-1051 starts with the first scenario and
\* cumulative_cash_flow = 0 - one_time_services_cost (lines 1015-1019)
FloatReturnPayback(payback) ==
    /\ float_run' =
           IF float_run.at < Len(ScenarioOrder)
           THEN [float_run EXCEPT
                    !.results = (ScenarioOrder[float_run.at] :>
                                    [payback |-> payback, payback_months |-> "pending"]) @@ @,
                    !.at = @ + 1]
           ELSE [float_run EXCEPT
                    !.results = (ScenarioOrder[float_run.at] :>
                                    [payback |-> payback, payback_months |-> "pending"]) @@ @,
                    !.at = 1, !.position = 1, !.cumulative = FromInt(-services_cost)]
    /\ pc' = IF float_run.at < Len(ScenarioOrder) THEN "float_cash_flows"
             ELSE "float_payback_months"

\* one turn of the loop of lines 931-937 over the cash flows
FloatPaybackYear(cumulative_net_cash_flow) ==
    IF FNonNegative(cumulative_net_cash_flow)
    THEN FloatReturnPayback(ToString(float_run.position) \o " years")
    ELSE IF float_run.position = Len(float_run.scenario_cash_flows)
    THEN FloatReturnPayback("N/A")
    ELSE /\ float_run' = [float_run EXCEPT !.position = @ + 1,
                                           !.cumulative = cumulative_net_cash_flow]
         /\ pc' = pc

FloatPayback ==
    /\ pc = "float_payback"
    /\ FloatPaybackYear(FAdd(float_run.cumulative,
                             float_run.scenario_cash_flows[float_run.position]))
    /\ UNCHANGED <<factorVars, costVars, baselineVars, scenarioVars, ioVars, sideVars>>

\* calculate_payback_months returns (line 1036) into s_result['payback_months'] and
\* the loop of lines 1038-1051 goes on to the next scenario
FloatReturnPaybackMonths(payback_month) ==
    /\ float_run' =
           [float_run EXCEPT
               !.results[ScenarioOrder[float_run.at]].payback_months = payback_month,
               !.at = @ + 1, !.position = 1, !.cumulative = FromInt(-services_cost)]
    /\ pc' = IF float_run.at < Len(ScenarioOrder) THEN pc ELSE "float_done"

\* one turn of the loop of lines 1021-1034, max_months_eval = evaluation_years * 12
FloatPaybackMonth(cumulative_cash_flow) ==
    IF FNonNegative(cumulative_cash_flow)
    THEN FloatReturnPaybackMonths(ToString(float_run.position) \o " months")
    ELSE IF float_run.position = evaluation_years * 12
    THEN FloatReturnPaybackMonths("N/A")
    ELSE /\ float_run' = [float_run EXCEPT !.position = @ + 1,
                                           !.cumulative = cumulative_cash_flow]
         /\ pc' = pc

FloatPaybackMonths ==
    /\ pc = "float_payback_months"
    /\ FloatPaybackMonth(
           FAdd(float_run.cumulative,
                MonthlyNetCashFlowFloat(float_run.position,
                                        ScenarioBenefitsFloat(ScenarioOrder[float_run.at]),
                                        ScenarioImplDelayFloat(ScenarioOrder[float_run.at]))))
    /\ UNCHANGED <<factorVars, costVars, baselineVars, scenarioVars, ioVars, sideVars>>

FloatNext == FloatCashFlows \/ FloatPayback \/ FloatPaybackMonths

SpecFloat == FloatInit /\ [][FloatNext]_vars

\* C17: for every scenario, when the annual payback is "N/A" the monthly payback
\* computed with the horizon evaluation_years * 12 is "N/A" as well.
C17_AnnualNAImpliesMonthlyNA ==
    pc = "float_done" =>
        \A scenario_name \in DOMAIN float_run.results :
            float_run.results[scenario_name].payback = "N/A" =>
                float_run.results[scenario_name].payback_months = "N/A"

----------------------------------------------------------------------------
(* Claims about failed and partial imports *)

\* the file of the last import, as csv.DictReader reads it
ImportedFieldnames == ParseCsvLine(import_result.uploaded_file.content[1])
ImportedRows == CsvRows(Tail(import_result.uploaded_file.content))
ImportedKey(i) == CsvCell(ImportedFieldnames, ImportedRows[i], Word("Parameter"))

\* a CSV file with both columns has been imported
ImportedCsvWithColumns ==
    /\ pc = "imported"
    /\ import_result.uploaded_file.extension = "csv"
    /\ \E i \in DOMAIN ImportedFieldnames : ImportedFieldnames[i] = Word("Parameter")
    /\ \E i \in DOMAIN ImportedFieldnames : ImportedFieldnames[i] = Word("Value")

\* the row is the last one of its key, and has no Value cell
LastOfItsKey(i) == \A j \in DOMAIN ImportedRows : ImportedKey(j) = ImportedKey(i) => j <= i
WithoutValueCell(i) ==
    \A at \in DOMAIN ImportedFieldnames :
        ImportedFieldnames[at] = Word("Value") => Len(ImportedRows[i]) < at

\* C21: an import returns a success boolean and a message; a CSV file in which some
\* rows have no Value cell is imported all the same: every row's key is stored, a
\* row without the cell is stored as the text of None, and the message gives the
\* number of parameters imported (the distinct keys of the rows).
C21_MalformedRowsCoercedAndCounted ==
    /\ pc = "imported" => import_result.success \in BOOLEAN
    /\ ImportedCsvWithColumns =>
           /\ import_result.success
           /\ \A i \in DOMAIN ImportedRows :
                  /\ ImportedKey(i) \in DOMAIN session_state
                  /\ (LastOfItsKey(i) /\ WithoutValueCell(i)) =>
                         session_state[ImportedKey(i)] = Str(Word("None"))
           /\ import_result.message =
                  "Successfully imported "
                  \o ToString(Cardinality({ImportedKey(i) : i \in DOMAIN ImportedRows}))
                  \o " parameters"

C21_Witness ==
    /\ ImportedCsvWithColumns
    /\ Len(ImportedRows) = 3
    /\ import_result.message = "Successfully imported 2 parameters"
    /\ session_state[Word("hours_per_day")] = Str(Word("None"))
    /\ session_state[Word("alert_volume")] = PyInt(2)
    /\ Word("currency") \in DOMAIN session_state
    /\ session_state[Word("currency")] = Str(<<"K", "U+010D">>)

\* C28: an import that returns False because reading the file raised (invalid
\* JSON, JSON whose configuration is no mapping, CSV without a Parameter or Value
\* column) leaves the session store as it was before the call.
C28_FailedImportWritesNothing ==
    [][(ImportConfiguration /\ ~import_result'.success) => session_state' = session_state]_vars

C28_Witness ==
    /\ pc = "imported"
    /\ ~import_result.success
    /\ import_result.message = "Error importing JSON: AttributeError"
    /\ session_state # <<>>
    /\ session_state[Word("alert_volume")] = PyInt(4512)

----------------------------------------------------------------------------
(* Claims about the result records *)

\* C23: once the result record of a scenario exists, its set of fields and their
\* values do not change during the rest of the computation.
C23_ResultRecordsNeverChange ==
    [][\A scenario_name \in DOMAIN scenario_results :
           /\ scenario_name \in DOMAIN scenario_results'
           /\ scenario_results'[scenario_name] = scenario_results[scenario_name]]_vars

----------------------------------------------------------------------------
(* Further claims about the cost allocation *)

\* C25: called with the same eight arguments, calculate_alert_costs and
\* calculate_incident_costs return the same 4-tuple.
C25_AlertAndIncidentCostsAgree ==
    pc = "cost_done" => alert_ret.ret = incident_ret.ret

C25_Witness ==
    /\ pc = "cost_done"
    /\ c_args.volume = 1200000 /\ c_args.ftes = 2 /\ c_args.triage = 25
    /\ c_args.salary = 50000 /\ c_args.hours_per_day = Norm(15, 2)
    /\ RLt(One, alert_ret.ret[3])
    /\ RLt(Zero, incident_ret.ret[1])
    /\ incident_ret.ret = alert_ret.ret

\* avg_salary * avg_triage_minutes / (60 * annual_working_hours)
UnitCostOfArgs ==
    RDiv(R(c_args.salary * c_args.triage), RMul(R(60), ArgWorkingHours))

\* the returned cost per unit and total handling cost are those of the arguments,
\* whatever the headcount
UnitCostReturned(returned) ==
    /\ returned.ret[1] = UnitCostOfArgs
    /\ returned.ret[2] = RMul(R(c_args.volume), UnitCostOfArgs)

AlertHandlingCost == RMul(R(inputs.alert_volume), costs.cost_per_alert)
IncidentHandlingCost == RMul(R(inputs.incident_volume), costs.cost_per_incident)

PctsInRange ==
    /\ inputs.alert_reduction_pct \in 0..100
    /\ inputs.alert_triage_time_saved_pct \in 0..100
    /\ inputs.incident_reduction_pct \in 0..100
    /\ inputs.incident_triage_time_savings_pct \in 0..100

YearOfMonth(m) == (m + 11) \div 12

\* C26: for every scenario, a monthly payback of m months comes with an annual
\* payback of exactly ceil(m / 12) years, and an annual payback of y years comes
\* with a monthly payback of a month m with 12 * (y - 1) < m <= 12 * y.
C26_PaybackFiguresAgree ==
    pc = "float_done" =>
        \A scenario_name \in DOMAIN float_run.results :
            LET r == float_run.results[scenario_name]
            IN  /\ \A m \in 1..(evaluation_years * 12) :
                       r.payback_months = ToString(m) \o " months" =>
                           r.payback = ToString(YearOfMonth(m)) \o " years"
                /\ \A y \in 1..evaluation_years :
                       r.payback = ToString(y) \o " years" =>
                           \E m \in (12 * (y - 1) + 1)..(12 * y) :
                               r.payback_months = ToString(m) \o " months"

(***************************************************************************)
(* The independence of the scenarios                                       *)
(***************************************************************************)

\* what calculate_scenario_results returns for the scenario when it is called in
\* the present state
EvaluatedNow(scenario_name) ==
    calculate_scenario_results(scenarios[scenario_name].benefits_multiplier,
        scenarios[scenario_name].implementation_delay_multiplier, scenario_name)

SameFigures(result, other) ==
    /\ result.npv = other.npv
    /\ result.roi = other.roi
    /\ result.payback = other.payback
    /\ result.cash_flows = other.cash_flows

\* the inputs every scenario run reads
BaseInputs ==
    <<total_annual_benefits, implementation_delay_months, benefits_ramp_up_months,
      platform_cost, services_cost, evaluation_years, discount_rate>>

----------------------------------------------------------------------------
(***************************************************************************)
(* The checks and the what-if analysis, and the script from the validation *)
(* of the inputs to the what-if figures                                    *)
(***************************************************************************)

\* lines 620-621
working_hours_per_fte_per_year ==
    RMul(R(inputs.weeks_per_year * inputs.days_per_week - inputs.holiday_sick_days),
         inputs.hours_per_day)

\* a list with the message when the condition holds: "if condition: list.append(message)"
AppendIf(condition, message) == IF condition THEN <<message>> ELSE <<>>

\* lines 33-74; reads the globals platform_cost, services_cost and the sidebar inputs
validate_inputs ==
    LET errors ==
            AppendIf(platform_cost < 0, "Platform cost cannot be negative")
            \o AppendIf(services_cost < 0, "Services cost cannot be negative")
        warnings ==
            AppendIf(inputs.alert_reduction_pct > 90,
                     "Alert reduction >90% may be unrealistic")
            \o AppendIf(inputs.incident_reduction_pct > 90,
                        "Incident reduction >90% may be unrealistic")
            \o AppendIf(inputs.mttr_improvement_pct > 80,
                        "MTTR improvement >80% may be unrealistic")
            \o AppendIf(platform_cost = 0 /\ services_cost = 0,
                        "Both platform and services costs are zero - is this correct?")
            \o AppendIf(inputs.alert_volume > 0 /\ inputs.alert_ftes = 0,
                        "You have alert volume but no FTEs assigned to alerts")
            \o AppendIf(inputs.incident_volume > 0 /\ inputs.incident_ftes = 0,
                        "You have incident volume but no FTEs assigned to incidents")
            \o AppendIf(RLt(working_hours_per_fte_per_year, R(1000)),
                        "Working hours per FTE seems very low (<1000 hours/year)")
            \o AppendIf(RLt(R(3000), working_hours_per_fte_per_year),
                        "Working hours per FTE seems very high (>3000 hours/year)")
            \o AppendIf(inputs.alert_volume > 0 /\ inputs.avg_alert_triage_time = 0,
                        "Alert volume exists but triage time is zero")
            \o AppendIf(inputs.incident_volume > 0 /\ inputs.avg_incident_triage_time = 0,
                        "Incident volume exists but triage time is zero")
    IN  [warnings |-> warnings, errors |-> errors]

\* the integer nearest to x, the even one of two equally near
RoundHalfEven(x) ==
    LET floor == x[1] \div x[2]
        twice_rest == 2 * (x[1] % x[2])
    IN  IF twice_rest > x[2] \/ (twice_rest = x[2] /\ floor % 2 = 1) THEN floor + 1
        ELSE floor

\* f"{x:.1f}" for x >= 0
FormatOneDecimal(x) ==
    LET tenths == RoundHalfEven(RMul(x, R(10)))
    IN  ToString(tenths \div 10) \o "." \o ToString(tenths % 10)

\* lines 76-91; reads the globals the cost allocation and line 874 have bound
check_calculation_health ==
    LET total_fte_costs ==
            inputs.avg_alert_fte_salary * inputs.alert_ftes
            + inputs.avg_incident_fte_salary * inputs.incident_ftes
    IN  AppendIf("alert_fte_percentage" \in DOMAIN costs
                    /\ RLt(One, costs.alert_fte_percentage),
                 "Alert management requires "
                    \o FormatOneDecimal(RMul(costs.alert_fte_percentage, R(100)))
                    \o "% of FTE time (>100%)")
        \o AppendIf("incident_fte_percentage" \in DOMAIN costs
                       /\ RLt(One, costs.incident_fte_percentage),
                    "Incident management requires "
                       \o FormatOneDecimal(RMul(costs.incident_fte_percentage, R(100)))
                       \o "% of FTE time (>100%)")
        \o AppendIf(total_fte_costs > 0
                       /\ RLt(R(total_fte_costs * 2), total_annual_benefits),
                    "Total annual benefits exceed 2x total FTE costs - please verify assumptions")

\* One year of the what-if loop, lines 1980-1992: the year's net cash flow
WhatIfCashFlow(year, whatif_benefits, whatif_platform_cost, whatif_services_cost, whatif_impl_delay) ==
    LET year_start_month == (year - 1) * 12 + 1
        year_end_month == year * 12
        monthly_factors ==
            [i \in 1..(year_end_month - year_start_month + 1) |->
                calculate_benefit_realization_factor(year_start_month + i - 1,
                    whatif_impl_delay, benefits_ramp_up_months).value]
        avg_realization_factor == Mean(monthly_factors)
        year_benefits == RMul(whatif_benefits, avg_realization_factor)
        year_platform_cost == whatif_platform_cost
        year_services_cost == IF year = 1 THEN whatif_services_cost ELSE Zero
    IN  RSub(RSub(year_benefits, year_platform_cost), year_services_cost)

\* Mutant of WhatIfScenario (used to test the claims): the first year not discounted
what_if_first_year_undiscounted(benefits_variation, cost_variation, delay_variation, discount_variation) ==
    LET whatif_benefits == RMul(total_annual_benefits, Pct(benefits_variation))
        whatif_platform_cost == RMul(R(platform_cost), Pct(cost_variation))
        whatif_services_cost == RMul(R(services_cost), Pct(cost_variation))
        whatif_impl_delay ==
            Trunc(RMul(R(implementation_delay_months), Pct(delay_variation)))
        whatif_discount_rate == Pct(discount_variation)
        whatif_cash_flows ==
            [year \in 1..evaluation_years |->
                WhatIfCashFlow(year, whatif_benefits, whatif_platform_cost,
                               whatif_services_cost, whatif_impl_delay)]
        whatif_npv ==
            RSum([i \in 1..Len(whatif_cash_flows) |->
                    RDiv(whatif_cash_flows[i],
                         RPow(RAdd(One, whatif_discount_rate), i - 1))])
        whatif_total_cost ==
            RAdd(RMul(whatif_platform_cost, R(evaluation_years)), whatif_services_cost)
        whatif_roi ==
            IF RLt(Zero, whatif_total_cost)
            THEN RMul(RDiv(whatif_npv, whatif_total_cost), R(100)) ELSE Zero
    IN  [benefits_variation |-> benefits_variation, cost_variation |-> cost_variation,
         delay_variation |-> delay_variation, discount_variation |-> discount_variation,
         whatif_npv |-> whatif_npv, whatif_total_cost |-> whatif_total_cost,
         whatif_roi |-> whatif_roi]

\* lines 1971-1998 for the four slider values; reads the globals total_annual_benefits,
\* platform_cost, services_cost, implementation_delay_months, benefits_ramp_up_months
\* and evaluation_years
WhatIfScenario(benefits_variation, cost_variation, delay_variation, discount_variation) ==
    LET whatif_benefits == RMul(total_annual_benefits, Pct(benefits_variation))
        whatif_platform_cost == RMul(R(platform_cost), Pct(cost_variation))
        whatif_services_cost == RMul(R(services_cost), Pct(cost_variation))
        whatif_impl_delay ==
            Trunc(RMul(R(implementation_delay_months), Pct(delay_variation)))
        whatif_discount_rate == Pct(discount_variation)
        whatif_cash_flows ==
            [year \in 1..evaluation_years |->
                WhatIfCashFlow(year, whatif_benefits, whatif_platform_cost,
                               whatif_services_cost, whatif_impl_delay)]
        whatif_npv ==
            RSum([i \in 1..Len(whatif_cash_flows) |->
                    RDiv(whatif_cash_flows[i],
                         RPow(RAdd(One, whatif_discount_rate), i))])
        whatif_total_cost ==
            RAdd(RMul(whatif_platform_cost, R(evaluation_years)), whatif_services_cost)
        whatif_roi ==
            IF RLt(Zero, whatif_total_cost)
            THEN RMul(RDiv(whatif_npv, whatif_total_cost), R(100)) ELSE Zero
    IN  [benefits_variation |-> benefits_variation, cost_variation |-> cost_variation,
         delay_variation |-> delay_variation, discount_variation |-> discount_variation,
         whatif_npv |-> whatif_npv, whatif_total_cost |-> whatif_total_cost,
         whatif_roi |-> whatif_roi]

\* --- the script from line 784 to line 1998, for drawn inputs ---

\* <<volume, ftes, triage minutes, salary>>: a quarter of one FTE's year, two and a
\* half times one FTE's year, and a volume with neither head count nor triage time
ScriptAlertWorkloads == {<<600, 1, 47, 300>>, <<6000, 1, 47, 300>>, <<600, 0, 0, 300>>}
\* <<alert reduction %, alert triage time saved %, MTTR improvement %>>
ScriptPcts == {<<40, 40, 50>>, <<95, 0, 90>>}
ScriptEntered == {{}, {"tool_savings"}}
ScriptHoursPerDay == {4, 8}
ScriptPlatformCosts == {-600, 0, 1500}
ScriptServicesCosts == {-500, 0, 500}
\* <<delay, ramp-up, years, discount rate %>>
ScriptTimelines == {<<6, 3, 2, 20>>, <<0, 0, 1, 5>>}
\* positions of the what-if sliders of lines 1947-1968
BenefitsVariations == {50, 100}
CostVariations == {100, 150}
DelayVariations == {100, 200}
DiscountVariations == {5, 20, 25}

ScriptInit ==
    /\ pc = "inputs_read"
    /\ \E a \in ScriptAlertWorkloads, p \in ScriptPcts, e \in ScriptEntered,
          h \in ScriptHoursPerDay :
           inputs = [alert_volume |-> a[1], alert_ftes |-> a[2],
                     avg_alert_triage_time |-> a[3], avg_alert_fte_salary |-> a[4],
                     alert_reduction_pct |-> p[1], alert_triage_time_saved_pct |-> p[2],
                     incident_volume |-> 120, incident_ftes |-> 2,
                     avg_incident_triage_time |-> 94, avg_incident_fte_salary |-> 200,
                     incident_reduction_pct |-> 25,
                     incident_triage_time_savings_pct |-> 40,
                     major_incident_volume |-> 4, avg_major_incident_cost |-> 100,
                     avg_mttr_hours |-> Norm(5, 2), mttr_improvement_pct |-> p[3],
                     tool_savings |-> Amount(e, "tool_savings"),
                     people_cost_per_year |-> Amount(e, "people_cost_per_year"),
                     fte_avoidance |-> Amount(e, "fte_avoidance"),
                     sla_penalty_avoidance |-> Amount(e, "sla_penalty_avoidance"),
                     revenue_growth |-> Amount(e, "revenue_growth"),
                     capex_savings |-> Amount(e, "capex_savings"),
                     opex_savings |-> Amount(e, "opex_savings"),
                     hours_per_day |-> R(h), days_per_week |-> 5,
                     weeks_per_year |-> 52, holiday_sick_days |-> 25]
    /\ costs = <<>>
    /\ savings = <<>>
    /\ total_annual_benefits = Zero
    /\ platform_cost \in ScriptPlatformCosts
    /\ services_cost \in ScriptServicesCosts
    /\ \E t \in ScriptTimelines :
           /\ implementation_delay_months = t[1]
           /\ benefits_ramp_up_months = t[2]
           /\ evaluation_years = t[3]
           /\ discount_rate = Norm(t[4], 100)
    /\ scenario_results = <<>>
    /\ expected_monthly_cf_df = <<>>
    /\ checks = NotChecked
    /\ whatif = <<>>
    /\ CostIdle
    /\ FactorIdle
    /\ IoIdle
    /\ FloatIdle

\* Mutant of ValidateInputs (used to test the claims): the script stops when the
\* validation returns errors
ValidateInputsStopsOnErrors ==
    /\ pc = "inputs_read"
    /\ ~checks.validated
    /\ checks' = [checks EXCEPT !.validated = TRUE,
                                !.warnings = validate_inputs.warnings,
                                !.errors = validate_inputs.errors]
    /\ pc' = IF validate_inputs.errors # <<>> THEN "stopped" ELSE pc
    /\ UNCHANGED <<factorVars, costVars, baselineVars, scenarioVars, ioVars, floatVars,
                   whatif>>

\* line 784: warnings, errors = validate_inputs(); lines 786-797 only display them
ValidateInputs ==
    /\ pc = "inputs_read"
    /\ ~checks.validated
    /\ checks' = [checks EXCEPT !.validated = TRUE,
                                !.warnings = validate_inputs.warnings,
                                !.errors = validate_inputs.errors]
    /\ UNCHANGED <<pc, factorVars, costVars, baselineVars, scenarioVars, ioVars,
                   floatVars, whatif>>

\* lines 880-974: the function definitions, the scenarios dictionary and
\* scenario_results = {}
DefineScenarios ==
    /\ pc = "total_done"
    /\ scenario_results' = <<>>
    /\ pc' = "scenario_loop"
    /\ UNCHANGED <<timelineVars, expected_monthly_cf_df>>
    /\ UNCHANGED <<factorVars, costVars, baselineVars, ioVars, floatVars, sideVars>>

\* line 1434: calc_issues = check_calculation_health(); lines 1435-1439 only display
CheckCalculationHealth ==
    /\ pc = "monthly_chart"
    /\ ~checks.health_checked
    /\ checks' = [checks EXCEPT !.health_checked = TRUE,
                                !.calc_issues = check_calculation_health]
    /\ UNCHANGED <<pc, factorVars, costVars, baselineVars, scenarioVars, ioVars,
                   floatVars, whatif>>

\* lines 1947-1998 for one position of the four sliders
WhatIfAnalysis ==
    /\ pc = "done"
    /\ \E benefits_variation \in BenefitsVariations, cost_variation \in CostVariations,
          delay_variation \in DelayVariations, discount_variation \in DiscountVariations :
           whatif' = WhatIfScenario(benefits_variation, cost_variation, delay_variation,
                                    discount_variation)
    /\ pc' = "whatif_done"
    /\ UNCHANGED <<factorVars, costVars, baselineVars, scenarioVars, ioVars, floatVars,
                   checks>>

\* the script in the order of its lines: the validation before the cost allocation,
\* the health check before the monthly chart
ScriptNext ==
    \/ ValidateInputs
    \/ (checks.validated /\ CalculateCosts)
    \/ CalculateBaselineSavings
    \/ CalculateTotalAnnualBenefits
    \/ DefineScenarios
    \/ RunScenario
    \/ UpdatePaybackMonths
    \/ CheckCalculationHealth
    \/ (checks.health_checked /\ MonthlyCashFlowChart)
    \/ WhatIfAnalysis

SpecScript == ScriptInit /\ [][ScriptNext]_vars

----------------------------------------------------------------------------
(* Claims about the checks and the what-if analysis *)

\* what the engine computes from the inputs alone: the cost allocation, the savings,
\* the total and the scenario figures, each as far as the script has come
EngineResultsFromInputs ==
    /\ costs # <<>> =>
           /\ <<costs.cost_per_alert, costs.total_alert_handling_cost,
                costs.alert_fte_percentage, costs.alert_working_hours>> =
                  calculate_alert_costs(inputs.alert_volume, inputs.alert_ftes,
                      inputs.avg_alert_triage_time, inputs.avg_alert_fte_salary,
                      inputs.hours_per_day, inputs.days_per_week, inputs.weeks_per_year,
                      inputs.holiday_sick_days).ret
           /\ <<costs.cost_per_incident, costs.total_incident_handling_cost,
                costs.incident_fte_percentage, costs.incident_working_hours>> =
                  calculate_incident_costs(inputs.incident_volume, inputs.incident_ftes,
                      inputs.avg_incident_triage_time, inputs.avg_incident_fte_salary,
                      inputs.hours_per_day, inputs.days_per_week, inputs.weeks_per_year,
                      inputs.holiday_sick_days).ret
    /\ savings # <<>> =>
           /\ savings.alert_reduction_savings =
                  AlertSavings(inputs.alert_volume, inputs.alert_reduction_pct,
                      costs.cost_per_alert, inputs.alert_triage_time_saved_pct).reduction
           /\ savings.incident_triage_savings =
                  IncidentSavings(inputs.incident_volume, inputs.incident_reduction_pct,
                      costs.cost_per_incident,
                      inputs.incident_triage_time_savings_pct).triage
    /\ pc \in {"total_done", "scenario_loop", "payback_loop", "monthly_chart", "done",
               "whatif_done"} =>
           total_annual_benefits = TotalAnnualBenefits(savings, inputs)
    /\ \A scenario_name \in DOMAIN scenario_results :
           SameFigures(scenario_results[scenario_name], EvaluatedNow(scenario_name))
    /\ pc \in {"done", "whatif_done"} =>
           /\ DOMAIN scenario_results = DOMAIN scenarios
           /\ expected_monthly_cf_df # <<>>

\* everything but the outcome of the checks and the what-if figures
EngineState ==
    <<pc, inputs, costs, savings, total_annual_benefits, timelineVars, scenario_results,
      expected_monthly_cf_df>>

\* C22: whatever validate_inputs and check_calculation_health return, a step that
\* runs a check changes no input and no computed value and leaves the script where
\* it was, ready for its next step (the cost allocation after the validation, the
\* monthly chart after the health check); and the cost allocation, the total annual
\* benefits and the scenario results are what the engine computes from the inputs,
\* all of them present at the end.
C22_ChecksAreAdvisory ==
    /\ []EngineResultsFromInputs
    /\ [][checks' # checks =>
              \/ pc' = "inputs_read" /\ checks'.validated
              \/ pc' = "monthly_chart" /\ checks'.health_checked]_vars
    /\ [][checks' # checks => EngineState' = EngineState]_vars

\* both checks have run, the validation returned two errors and warnings, the health
\* check an issue, and all three scenarios have their figures
C22_Witness ==
    /\ pc = "done"
    /\ checks.validated /\ checks.health_checked
    /\ checks.errors = <<"Platform cost cannot be negative",
                         "Services cost cannot be negative">>
    /\ checks.warnings # <<>>
    /\ checks.calc_issues # <<>>
    /\ DOMAIN scenario_results = DOMAIN scenarios
    /\ scenario_results["Expected"].npv # Zero
    /\ "payback_months" \in DOMAIN scenario_results["Optimistic"]

\* C30: with the benefits, cost and delay sliders at 100%, the what-if discount
\* rate equal to discount_rate and a positive what-if total cost, the what-if NPV
\* is the NPV of the Expected scenario and the what-if ROI, a percentage, is 100
\* times its ROI.
C30_WhatIfAtBaseIsExpected ==
    (/\ pc = "whatif_done"
     /\ whatif.benefits_variation = 100
     /\ whatif.cost_variation = 100
     /\ whatif.delay_variation = 100
     /\ Pct(whatif.discount_variation) = discount_rate
     /\ RLt(Zero, whatif.whatif_total_cost)) =>
        /\ whatif.whatif_npv = scenario_results["Expected"].npv
        /\ whatif.whatif_roi = RMul(R(100), scenario_results["Expected"].roi)

\* such a what-if calculation over two discounted years, with a positive NPV
C30_Witness ==
    /\ pc = "whatif_done"
    /\ whatif.benefits_variation = 100
    /\ whatif.cost_variation = 100
    /\ whatif.delay_variation = 100
    /\ whatif.discount_variation = 20
    /\ discount_rate = Norm(20, 100)
    /\ evaluation_years = 2
    /\ platform_cost = 1500 /\ services_cost = 500
    /\ RLt(Zero, whatif.whatif_npv)
    /\ whatif.whatif_roi = RMul(R(100), scenario_results["Expected"].roi)
    /\ whatif.whatif_roi # Zero

====
